---- MODULE Spec2Model ----
(***************************************************************************)
(* A model of the Sceptre CDK template handler: the handler (CDK.validate, *)
(* CDK.handle) and the three builders of cdk_builder.py                    *)
(* (BootstrappedCdkBuilder, BootstraplessCdkBuilder, CdkJsonBuilder).      *)
(*                                                                         *)
(* A Python dict is a TLA+ function; a missing key is a key outside its    *)
(* DOMAIN.  The key order of a dict matters in one place only (the list of *)
(* file-asset keys of the asset manifest), which is therefore a sequence.  *)
(* The collaborators the code is handed (the CDK app, the stack class, the *)
(* synthesizer class, subprocess.run, the connection manager) answer       *)
(* nondeterministically, each answer drawn from a small set.               *)
(***************************************************************************)
EXTENDS Naturals, Sequences, FiniteSets, TLC

(* ---------------------------------------------------------------- bounds *)

\* The longest list of file-asset keys a synthesized manifest holds.
MaxFiles == 2

(* ------------------------------------------------------------- constants *)

STACK_LOGICAL_ID == "CDKStack"
DEFAULT_CLASS_NAME == "CdkStack"
QUALIFIER_CONTEXT_KEY == "@aws-cdk/core:bootstrapQualifier"

(* ----------------------------------------------------------------- dicts *)

EmptyDict == [k \in {} |-> ""]

\* d.get(k, default)
Get(d, k, default) == IF k \in DOMAIN d THEN d[k] ELSE default

\* d[k] = v, and d.update(k=v)
Put(d, k, v) == (k :> v) @@ d

\* Python truthiness of a dict and of a str
DictTruthy(d) == DOMAIN d # {}
StrTruthy(s) == s # ""

\* The sequences without repetition, of length at most n, over the set S:
\* the key lists a dict with keys in S can have.
KeyLists(S, n) ==
    {s \in UNION {[1..m -> S] : m \in 0..n} :
        \A i, j \in 1..Len(s) : i # j => s[i] # s[j]}

\* A context value: a str, or a nested list / dict (val is then its repr).
StrValue(s) == [type |-> "str", val |-> s]
ListValue(s) == [type |-> "list", val |-> s]
DictValue(s) == [type |-> "dict", val |-> s]

\* f'{value}'
Format(v) == v.val

(* ---------------------------------------------------------------- inputs *)

\* sceptre_user_data: nothing, or some data
UserDatas == {EmptyDict, "user" :> "data"}

\* The values of the "context" argument.
Contexts ==
    { EmptyDict,
      "something" :> StrValue("else"),
      ("something" :> StrValue("else")) @@ (QUALIFIER_CONTEXT_KEY :> StrValue("existing")) }

\* The values of the "bootstrapless_config" argument; the last key is one that
\* neither the schema nor the synthesizer knows.
BootstraplessConfigs ==
    { EmptyDict,
      "file_asset_bucket_name" :> "my_bucket",
      "some_unknown_configuration" :> "my_bucket" }

\* A path argument, relative to <project_path>/templates: its directories, and
\* its file name as stem and suffix (pathlib's Path.stem, Path.suffix).
PathOf(stem, suffix) == [dirs |-> <<"my", "template">>, stem |-> stem, suffix |-> suffix]
Paths == { PathOf("path", ".py"), PathOf("cdk", ".json"), PathOf("path", ".txt") }

DeploymentTypes == {"bootstrapped", "bootstrapless", "cdk_json"}
Qualifiers == {"", "blardyblahr"}
LogicalIds == {"MyCdkStack", STACK_LOGICAL_ID}

\* An optional argument: absent, or one of vals.
Optional(key, vals) == {EmptyDict} \cup {key :> v : v \in vals}

\* The arguments a handler is constructed with; class_name is given with the
\* required arguments alone.
ArgumentSets ==
    { p @@ d @@ q @@ c @@ s @@ b :
        p \in {"path" :> v : v \in Paths},
        d \in {"deployment_type" :> v : v \in DeploymentTypes},
        q \in Optional("bootstrap_qualifier", Qualifiers),
        c \in Optional("context", Contexts),
        s \in Optional("stack_logical_id", {"MyCdkStack"}),
        b \in Optional("bootstrapless_config", BootstraplessConfigs) }
    \cup
    { p @@ d @@ ("class_name" :> "MyFancyClass") :
        p \in {"path" :> v : v \in Paths},
        d \in {"deployment_type" :> v : v \in DeploymentTypes} }

\* The environment the connection manager hands out: it may already hold the
\* variables a build sets.
BaseEnvs ==
    { "PATH" :> "blah:blah:blah",
      ("PATH" :> "blah:blah:blah") @@ ("CDK_DEFAULT_REGION" :> "stale-region")
          @@ ("BSS_FILE_ASSET_BUCKET_NAME" :> "stale_bucket") }
Regions == {"us-west-2"}

\* A connection manager: its region, the mapping its
\* create_session_environment_variables() hands out, and whether each call
\* hands out a new mapping (Sceptre's ConnectionManager builds one from
\* os.environ at each call) or the same one again (a Mock with a
\* return_value, as the builder tests construct it)
ConnectionManagers == [region : Regions, environment : BaseEnvs, shares_mapping : {FALSE}]

(* ------------------------------------------------------------ file paths *)

\* The directory the process runs in, and the handler's project_path.
Cwd == "/cwd"
ProjectPath == "root_sceptre_dir"

RECURSIVE JoinDirs(_)
\* "/".join(dirs), with a leading "/" before every segment
JoinDirs(dirs) == IF dirs = <<>> THEN "" ELSE "/" \o Head(dirs) \o JoinDirs(Tail(dirs))

\* Path.name
PathName(p) == p.stem \o p.suffix

\* str.lower() of the file names of the model
Lower(s) ==
    CASE s = "CDK.JSON" -> "cdk.json"
      [] s = "Cdk.json" -> "cdk.json"
      [] s = "PATH.PY" -> "path.py"
      [] OTHER -> s

\* str.upper() of the bootstrapless option names of the model
Upper(s) ==
    CASE s = "file_asset_bucket_name" -> "FILE_ASSET_BUCKET_NAME"
      [] s = "template_bucket_name" -> "TEMPLATE_BUCKET_NAME"
      [] s = "some_unknown_configuration" -> "SOME_UNKNOWN_CONFIGURATION"
      [] OTHER -> s

\* str(path.parent.resolve()): a relative path is resolved against the cwd
ParentResolved(p) == (IF p.abs THEN "" ELSE Cwd) \o JoinDirs(p.dirs)

\* Path(output_dir, name): a file of the file system is the pair of its
\* directory and its name; str(path) joins them
FilePath(dir, name) == <<dir, name>>
PathStr(fp) == fp[1] \o "/" \o fp[2]

\* TemporaryDirectory(): a directory that does not exist yet
TemporaryNames == <<"/tmp/tmpa", "/tmp/tmpb">>
TemporaryDirectory(existing) ==
    TemporaryNames[CHOOSE i \in 1..Len(TemporaryNames) :
                      /\ TemporaryNames[i] \notin existing
                      /\ \A j \in 1..(i - 1) : TemporaryNames[j] \in existing]

(* ----------------------------------------------------- CdkBuilder (base) *)

\* The exceptions of the model
\* The outcome of a call: nothing yet, a value returned, or an exception
\* raised (its type, the type of the exception it is chained to, its message)
NoOutcome == [kind |-> "none", exc |-> "", cause |-> "", msg |-> "", value |-> EmptyDict]
Raised(exc, cause, msg) ==
    [kind |-> "raised", exc |-> exc, cause |-> cause, msg |-> msg, value |-> EmptyDict]
Returned(value) == [kind |-> "returned", exc |-> "", cause |-> "", msg |-> "", value |-> value]

\* CdkBuilder._get_envs: the connection manager's environment with the region
GetEnvsKeepsBase(cm) == cm.environment @@ ("CDK_DEFAULT_REGION" :> cm.region)
get_envs(cm) == Put(cm.environment, "CDK_DEFAULT_REGION", cm.region)

\* The connection manager once a build has updated the mapping it was handed:
\* envs.update(...) and environment_variables[...] = value change that
\* mapping in place, so a connection manager that hands out the same mapping
\* again holds what the build added
connection_manager_after(cm, envs) ==
    IF cm.shares_mapping THEN [cm EXCEPT !.environment = envs] ELSE cm

\* CdkJsonBuilder._add_bootstrapless_envs
BssName(key) == "BSS_" \o Upper(key)
add_bootstrapless_envs(environment_variables, bootstrapless_config) ==
    [name \in DOMAIN environment_variables \cup {BssName(k) : k \in DOMAIN bootstrapless_config} |->
        IF \E k \in DOMAIN bootstrapless_config : BssName(k) = name
        THEN bootstrapless_config[CHOOSE k \in DOMAIN bootstrapless_config : BssName(k) = name]
        ELSE environment_variables[name]]

\* CdkBuilder._publish_artifacts: the command line it runs
publish_command(artifact_file) == "npx cdk-assets -v publish --path " \o artifact_file

\* The cwd argument of subprocess.run when none is given
InheritCwd == "None"

\* One call of subprocess.run(command, env=env, shell=True, check=True, cwd=cwd)
SubprocessCall(command, env, cwd, ok) ==
    [command |-> command, env |-> env, cwd |-> cwd, ok |-> ok]

\* CdkBuilder._run_command: subprocess.run(..., check=True) raises when the
\* command exits non-zero
RunCommandNeverRaises(ok) == FALSE
run_command_raises(ok) == ~ok

\* CdkBuilder._run_command: what the failing command makes build_template
\* raise; nothing catches subprocess.CalledProcessError
run_command_error == Raised("CalledProcessError", "", "bad command")

(* ------------------------------------------------------ PythonCdkBuilder *)

ManifestType == "AssetManifestArtifact"
NoArtifact == [type |-> "None", file |-> "", docker_images |-> EmptyDict, files |-> <<>>]
OtherArtifact ==
    [type |-> "CloudFormationStackArtifact", file |-> "", docker_images |-> EmptyDict, files |-> <<>>]

\* PythonCdkBuilder._get_assets_manifest: the first asset manifest artifact
\* of the assembly, NoArtifact standing for None
GetAssetsManifestAnyType(cloud_assembly) ==
    IF cloud_assembly.artifacts = <<>> THEN NoArtifact ELSE Head(cloud_assembly.artifacts)
PythonCdkBuilder_get_assets_manifest(cloud_assembly) ==
    LET found == {i \in 1..Len(cloud_assembly.artifacts) :
                     cloud_assembly.artifacts[i].type = ManifestType}
    IN IF found = {} THEN NoArtifact
       ELSE cloud_assembly.artifacts[CHOOSE i \in found : \A j \in found : i <= j]

\* PythonCdkBuilder._only_asset_is_template
OnlyAssetIsTemplateContains(asset_artifacts) ==
    IF DictTruthy(asset_artifacts.docker_images) THEN FALSE
    ELSE \E i \in 1..Len(asset_artifacts.files) :
            asset_artifacts.files[i] = STACK_LOGICAL_ID \o ".template.json"
PythonCdkBuilder_only_asset_is_template(asset_artifacts) ==
    IF DictTruthy(asset_artifacts.docker_images) THEN FALSE
    ELSE asset_artifacts.files = <<STACK_LOGICAL_ID \o ".template.json">>

\* PythonCdkBuilder._get_template
GetTemplateOtherStack(cloud_assembly) == cloud_assembly.stacks["OtherStack"]
PythonCdkBuilder_get_template(cloud_assembly) == cloud_assembly.stacks[STACK_LOGICAL_ID]

(* -------------------------------------------------------- CdkJsonBuilder *)

\* f'{self._stack_logical_id}...': None formats as 'None'
NoneStr == "None"

assets_file_name(stack_logical_id) == stack_logical_id \o ".assets.json"
template_file_name(stack_logical_id) == stack_logical_id \o ".template.json"

\* The order a context is iterated in: the qualifier key, inserted last by
\* the handler, comes last
ContextKeyOrder == <<"something", QUALIFIER_CONTEXT_KEY>>

RECURSIVE context_flags(_, _)
context_flags(cdk_context, keys) ==
    IF keys = <<>> THEN ""
    ELSE (IF Head(keys) \in DOMAIN cdk_context
          THEN "--context " \o Head(keys) \o "=" \o Format(cdk_context[Head(keys)]) \o " "
          ELSE "")
         \o context_flags(cdk_context, Tail(keys))

\* CdkJsonBuilder._create_synth_command
CreateSynthCommandWithoutContext(stack_logical_id, output_dir, cdk_context) ==
    "npx cdk synth " \o stack_logical_id \o " -o " \o output_dir \o " -q "
create_synth_command(stack_logical_id, output_dir, cdk_context) ==
    "npx cdk synth " \o stack_logical_id \o " -o " \o output_dir \o " -q "
        \o context_flags(cdk_context, ContextKeyOrder)

\* CdkJsonBuilder._only_asset_is_template
OnlyAssetIsTemplateFixedId(assets_dict, stack_logical_id) ==
    IF DictTruthy(Get(assets_dict, "dockerImages", EmptyDict)) THEN FALSE
    ELSE Get(assets_dict, "files", <<>>) = <<template_file_name(STACK_LOGICAL_ID)>>
CdkJsonBuilder_only_asset_is_template(assets_dict, stack_logical_id) ==
    IF DictTruthy(Get(assets_dict, "dockerImages", EmptyDict)) THEN FALSE
    ELSE Get(assets_dict, "files", <<>>) = <<template_file_name(stack_logical_id)>>

(* ------------------------------------------------- what synthesis yields *)

DockerImageDicts == {EmptyDict, "hashhashhash" :> "blah"}
FileKeys == {"CDKStack.template.json", "MyCdkStack.template.json", "hashyhashhash"}
FileKeyLists == KeyLists(FileKeys, MaxFiles)

Templates == {"Resources" :> "AWS::S3::Bucket", "Resources" :> "AWS::SQS::Queue"}
OtherTemplate == "Resources" :> "AWS::SNS::Topic"

ManifestArtifacts ==
    {[type |-> ManifestType, file |-> "asset/file/path", docker_images |-> d, files |-> f] :
        d \in DockerImageDicts, f \in FileKeyLists}

\* The artifacts of an assembly: at most one asset manifest, alone or after
\* an artifact of another type
ArtifactLists ==
    {<<>>, <<OtherArtifact>>}
        \cup {<<m>> : m \in ManifestArtifacts}
        \cup {<<OtherArtifact, m>> : m \in ManifestArtifacts}

\* What app.synth() returns: the artifacts, and the template of each stack
CloudAssemblies ==
    [artifacts : ArtifactLists,
     stacks : {(STACK_LOGICAL_ID :> t) @@ ("OtherStack" :> OtherTemplate) : t \in Templates}]
NoAssembly == [artifacts |-> <<>>, stacks |-> EmptyDict]

\* The asset manifests 'cdk synth' writes: JSON objects in which either key
\* may be missing
AssetsDicts ==
    {d @@ f : d \in Optional("dockerImages", DockerImageDicts),
              f \in Optional("files", FileKeyLists)}

\* The files 'cdk synth <id> -o <dir>' leaves in <dir>: the template of
\* another stack of the app, and possibly the stack's manifest and template
SynthOutputs(stack_logical_id) ==
    {a @@ t @@ ("OtherStack.template.json" :> OtherTemplate) :
        a \in Optional(assets_file_name(stack_logical_id), AssetsDicts),
        t \in Optional(template_file_name(stack_logical_id), Templates)}

(* ------------------------------------------------------------ file system *)

\* The file system: the temporary directories that exist, and the files in
\* them (a function from FilePath to the parsed JSON document)
EmptyFs == [dirs |-> {}, files |-> EmptyDict]

MakeDir(f, dir) == [f EXCEPT !.dirs = @ \cup {dir}]

\* Writing the files `written` (name -> document) into dir
WriteFiles(f, dir, written) ==
    [f EXCEPT !.files =
        [fp \in DOMAIN f.files \cup {FilePath(dir, n) : n \in DOMAIN written} |->
            IF fp[1] = dir /\ fp[2] \in DOMAIN written THEN written[fp[2]] ELSE f.files[fp]]]

\* TemporaryDirectory.__exit__: the directory goes, with everything in it
KeepDirectory(f, dir) == f
RemoveDirectory(f, dir) ==
    [dirs |-> f.dirs \ {dir},
     files |-> [fp \in {q \in DOMAIN f.files : q[1] # dir} |-> f.files[fp]]]

Exists(f, fp) == fp \in DOMAIN f.files

(* --------------------------------------------------------- CommandChecker *)

\* The machine validate runs on: the commands shutil.which finds, and the
\* exit codes of 'npm list <package>' and 'npm --global list <package>'
Machines == [which : SUBSET {"node", "npx"}, npm_workspace : {0, 1}, npm_global : {0, 1}]

NoMachine == [which |-> {"None"}, npm_workspace |-> 0, npm_global |-> 0]

\* CommandChecker.cmd_exists
cmd_exists(m, cmd) == cmd \in m.which

\* CommandChecker.node_package_exists: the workspace, then the global scope
NodePackageExistsInWorkspace(m, package) == m.npm_workspace = 0
node_package_exists(m, package) ==
    IF m.npm_workspace = 0 THEN TRUE ELSE m.npm_global = 0

\* The calls a CommandChecker makes: self._which(cmd), and
\* self._subprocess_run(command, shell=True)
WhichCall(cmd) == [func |-> "which", arg |-> cmd]
NpmCall(command) == [func |-> "subprocess_run", arg |-> command]

\* The calls CommandChecker.node_package_exists makes, in order: the global
\* scope is asked only once the workspace has answered with a non-zero exit
node_package_calls(m, package) ==
    IF m.npm_workspace = 0
    THEN <<NpmCall("npm list " \o package)>>
    ELSE <<NpmCall("npm list " \o package), NpmCall("npm --global list " \o package)>>

(* -------------------------------------------------------------------- CDK *)

\* CDK.schema: what jsonschema accepts (every argument of the model has the
\* type the schema names)
SchemaProperties ==
    {"path", "deployment_type", "bootstrap_qualifier", "context", "class_name",
     "stack_logical_id", "bootstrapless_config"}
SchemaBootstraplessProperties ==
    {"file_asset_bucket_name", "file_asset_prefix", "file_asset_publishing_role_arn",
     "file_asset_region_set", "image_asset_account_id", "image_asset_publishing_role_arn",
     "image_asset_region_set", "image_asset_repository_name", "image_asset_tag_prefix",
     "template_bucket_name"}
SchemaDeploymentTypesWithCdkJson == {"bootstrapped", "bootstrapless", "cdk_json"}
SchemaDeploymentTypes == {"bootstrapped", "bootstrapless"}
schema(args) ==
    /\ DOMAIN args \subseteq SchemaProperties
    /\ {"path", "deployment_type"} \subseteq DOMAIN args
    /\ args["deployment_type"] \in SchemaDeploymentTypes
    /\ "bootstrapless_config" \in DOMAIN args =>
          DOMAIN args["bootstrapless_config"] \subseteq SchemaBootstraplessProperties

\* The properties of CDK that read self.arguments; None is NoneStr
cdk_context_of(args) == Get(args, "context", EmptyDict)
cdk_class_name(args) == Get(args, "class_name", DEFAULT_CLASS_NAME)
bootstrap_qualifier(args) == Get(args, "bootstrap_qualifier", "")
has_bootstrap_qualifier(args) == "bootstrap_qualifier" \in DOMAIN args
bootstrapless_config(args) == Get(args, "bootstrapless_config", EmptyDict)
stack_logical_id_of(args) == Get(args, "stack_logical_id", NoneStr)

\* CDK.cdk_template_path / _resolve_template_path
cdk_template_path(args) ==
    [dirs |-> <<ProjectPath, "templates">> \o args["path"].dirs,
     stem |-> args["path"].stem, suffix |-> args["path"].suffix, abs |-> FALSE]

path_is_to_cdk_json(args) == Lower(PathName(cdk_template_path(args))) = "cdk.json"
PathIsToPythonFileAlways(args) == TRUE
path_is_to_python_file(args) == cdk_template_path(args).suffix = ".py"

ArgumentsInvalid(msg) == Raised("TemplateHandlerArgumentsInvalidError", "", msg)

\* CDK._check_prerequisites: the first prerequisite that is missing
CheckPrerequisitesNone(m) == NoOutcome
check_prerequisites(m) ==
    IF ~cmd_exists(m, "node")
    THEN Raised("SceptreException", "", "Command prerequisite 'node' not found")
    ELSE IF ~cmd_exists(m, "npx")
    THEN Raised("SceptreException", "", "Command prerequisite 'npx' not found")
    ELSE IF ~node_package_exists(m, "cdk-assets")
    THEN Raised("SceptreException", "", "Node Package prerequisite 'cdk-assets' not found")
    ELSE NoOutcome

\* CDK._check_prerequisites: the calls it makes on the CommandChecker, which
\* end with the first prerequisite that is missing
prerequisite_calls(m) ==
    IF ~cmd_exists(m, "node") THEN <<WhichCall("node")>>
    ELSE IF ~cmd_exists(m, "npx") THEN <<WhichCall("node"), WhichCall("npx")>>
    ELSE <<WhichCall("node"), WhichCall("npx")>> \o node_package_calls(m, "cdk-assets")

\* CDK._check_cdk_json
CheckCdkJsonNoNestedCheck(args) ==
    IF "stack_logical_id" \notin DOMAIN args
    THEN ArgumentsInvalid("You must specify the stack_logical_id")
    ELSE NoOutcome
check_cdk_json(args) ==
    IF /\ DictTruthy(cdk_context_of(args))
       /\ \E k \in DOMAIN cdk_context_of(args) : cdk_context_of(args)[k].type \in {"list", "dict"}
    THEN ArgumentsInvalid("You cannot use nested values within your CDK context")
    ELSE IF "stack_logical_id" \notin DOMAIN args
    THEN ArgumentsInvalid("You must specify the stack_logical_id")
    ELSE NoOutcome

\* CDK.validate, lines 178-185: the incompatible combinations
CheckCombinationsNone(args) == NoOutcome
check_combinations(args) ==
    IF args["deployment_type"] = "bootstrapped" /\ DictTruthy(bootstrapless_config(args))
    THEN ArgumentsInvalid("You cannot specify a bootstrapless_config with the bootstrapped deployment_type")
    ELSE IF args["deployment_type"] = "bootstrapless" /\ StrTruthy(bootstrap_qualifier(args))
    THEN ArgumentsInvalid("You cannot specify a bootstrap_qualifier with the bootstrapless deployment_type")
    ELSE NoOutcome

\* CDK.validate: the first check that fails decides; Returned when none does
validate(args, m) ==
    LET prerequisites == check_prerequisites(m) IN
    IF prerequisites.kind = "raised" THEN prerequisites
    ELSE IF "path" \notin DOMAIN args THEN Raised("KeyError", "", "path")
    ELSE LET path_check ==
                 IF path_is_to_cdk_json(args) THEN check_cdk_json(args)
                 ELSE IF ~path_is_to_python_file(args)
                 THEN ArgumentsInvalid("The path argument must either reference a Python file or a cdk.json")
                 ELSE NoOutcome
         IN
         IF path_check.kind = "raised" THEN path_check
         ELSE IF "deployment_type" \notin DOMAIN args THEN Raised("KeyError", "", "deployment_type")
         ELSE IF check_combinations(args).kind = "raised" THEN check_combinations(args)
         ELSE IF ~schema(args) THEN ArgumentsInvalid("schema")
         ELSE Returned(EmptyDict)

\* CDK._make_context_to_use: the context handed to build_template
MakeContextOverwriting(args) ==
    IF StrTruthy(bootstrap_qualifier(args))
    THEN Put(cdk_context_of(args), QUALIFIER_CONTEXT_KEY, StrValue(bootstrap_qualifier(args)))
    ELSE cdk_context_of(args)
make_context_to_use(args) ==
    IF QUALIFIER_CONTEXT_KEY \in DOMAIN cdk_context_of(args) THEN cdk_context_of(args)
    ELSE IF StrTruthy(bootstrap_qualifier(args))
    THEN Put(cdk_context_of(args), QUALIFIER_CONTEXT_KEY, StrValue(bootstrap_qualifier(args)))
    ELSE cdk_context_of(args)

\* What _make_context_to_use leaves in self.arguments: a context that was
\* given is the very dict the qualifier is put into; with no context given,
\* the dict is a new one and the arguments stay as they are
ArgumentsAfterTakingQualifier(args) ==
    LET after == IF "context" \in DOMAIN args
                 THEN Put(args, "context", make_context_to_use(args)) ELSE args
    IN [k \in DOMAIN after \ {"bootstrap_qualifier"} |-> after[k]]
arguments_after_make_context(args) ==
    IF "context" \in DOMAIN args THEN Put(args, "context", make_context_to_use(args)) ELSE args

\* yaml.safe_dump(template_dict)
yaml_safe_dump(template_dict) == [yaml |-> template_dict]

(* ---------------------------------------------------------------- builders *)

NoPath == [dirs |-> <<>>, stem |-> "", suffix |-> "", abs |-> FALSE]
NoBuilder ==
    [class |-> "None", stack_class |-> "", cdk_json_path |-> NoPath,
     stack_logical_id |-> "", bootstrapless_config |-> EmptyDict]

\* BootstrappedCdkBuilder(logger, connection_manager, stack_class)
BootstrappedCdkBuilder(stack_class) ==
    [class |-> "BootstrappedCdkBuilder", stack_class |-> stack_class, cdk_json_path |-> NoPath,
     stack_logical_id |-> "", bootstrapless_config |-> EmptyDict]

\* BootstraplessCdkBuilder(logger, connection_manager, bootstrapless_config, stack_class)
BootstraplessCdkBuilder(config, stack_class) ==
    [class |-> "BootstraplessCdkBuilder", stack_class |-> stack_class, cdk_json_path |-> NoPath,
     stack_logical_id |-> "", bootstrapless_config |-> config]

\* CdkJsonBuilder(logger, connection_manager, cdk_json_path, stack_logical_id, bootstrapless_config)
CdkJsonBuilder(path, logical_id, config) ==
    [class |-> "CdkJsonBuilder", stack_class |-> "", cdk_json_path |-> path,
     stack_logical_id |-> logical_id, bootstrapless_config |-> config]

PythonBuilderClasses == {"BootstrappedCdkBuilder", "BootstraplessCdkBuilder"}

\* The builders a caller constructs itself, as the unit tests do
DirectCdkJsonPath == [dirs |-> <<"path", "to", "my">>, stem |-> "cdk", suffix |-> ".json", abs |-> TRUE]
DirectBuilders ==
    {BootstrappedCdkBuilder("MyFancyStack")}
        \cup {BootstraplessCdkBuilder(c, "MyFancyBootstraplessStack") : c \in BootstraplessConfigs}
        \cup {CdkJsonBuilder(DirectCdkJsonPath, i, c) : i \in LogicalIds, c \in BootstraplessConfigs}

\* The keyword arguments BootstraplessStackSynthesizer accepts; any other one
\* makes its construction raise TypeError
SynthesizerParameters == SchemaBootstraplessProperties
NoSynthesizer == [constructed |-> FALSE, kwargs |-> EmptyDict]
Synthesizer(kwargs) == [constructed |-> TRUE, kwargs |-> kwargs]

\* What ClassImporter.import_class does in a handle call: it returns the
\* class, or raises
ImportOutcomes == {"imported", "SceptreException", "FileNotFoundError"}

(* ------------------------------------------------------------------ state *)

VARIABLES
    caller,                 \* "orchestrator": Sceptre drives a CDK handler;
                            \* "direct": the caller drives a builder it built
    arguments,              \* CDK.arguments
    initial_arguments,      \* the arguments the handler was constructed with
    sceptre_user_data,      \* the sceptre_user_data of the handler / the build
    connection_manager,     \* its region and session environment
    validated,              \* the outcome of CDK.validate
    machine,                \* the machine CDK.validate ran on
    checker_calls,          \* the calls the CommandChecker made for it
    working_directory,      \* Path.cwd() of a ClassImporter, as a directory chain
    sys_path,               \* sys.path
    template_module_name,   \* the module name import_class computed last
    import_calls,           \* the import_class calls of this handle call
    builder,                \* the builder in use
    pc,                     \* the phase of the build_template call
    phases,                 \* the phases this call went through
    cdk_context,            \* the context build_template was called with
    assembly,               \* app.synth()'s CloudAssembly
    manifest_artifact,      \* PythonCdkBuilder: the manifest artifact found
    assets_manifest,        \* CdkJsonBuilder: the manifest JSON read
    environment_variables,  \* the environment computed by this build
    output_dir,             \* CdkJsonBuilder: the temporary output directory
    fs,                     \* the file system
    subprocess_calls,       \* the subprocess.run calls of this call
    stack_calls,            \* the stack class instantiations of this call
    synth_calls,            \* the app.synth() calls of this call
    warnings,               \* the logger.warning calls of this call
    result                  \* the outcome of this call

handler_vars == <<caller, initial_arguments, connection_manager>>
importer_vars == <<working_directory, sys_path, template_module_name>>
call_vars ==
    <<pc, phases, cdk_context, assembly, manifest_artifact, assets_manifest,
      environment_variables, output_dir, fs, subprocess_calls, stack_calls,
      synth_calls, warnings, result>>
vars ==
    <<caller, arguments, initial_arguments, sceptre_user_data, connection_manager, validated,
      machine, checker_calls, working_directory, sys_path, template_module_name,
      import_calls, builder, pc, phases, cdk_context, assembly, manifest_artifact,
      assets_manifest, environment_variables, output_dir, fs, subprocess_calls,
      stack_calls, synth_calls, warnings, result>>

\* No ClassImporter of the caller's is at work
NoImporter ==
    /\ working_directory = <<"cwd">>
    /\ sys_path = <<>>
    /\ template_module_name = ""

\* Between calls nothing of a call is kept
NoCall ==
    /\ phases = <<>>
    /\ cdk_context = EmptyDict
    /\ assembly = NoAssembly
    /\ manifest_artifact = NoArtifact
    /\ assets_manifest = EmptyDict
    /\ environment_variables = EmptyDict
    /\ output_dir = ""
    /\ subprocess_calls = <<>>
    /\ stack_calls = <<>>
    /\ synth_calls = 0
    /\ warnings = 0
    /\ result = NoOutcome
    /\ import_calls = <<>>

Init ==
    /\ connection_manager \in ConnectionManagers
    /\ \/ /\ caller = "orchestrator"
          /\ arguments \in ArgumentSets
          /\ sceptre_user_data \in UserDatas
          /\ builder = NoBuilder
       \/ /\ caller = "direct"
          /\ arguments = EmptyDict
          /\ sceptre_user_data = EmptyDict
          /\ builder \in DirectBuilders
    /\ initial_arguments = arguments
    /\ validated = NoOutcome
    /\ machine = NoMachine
    /\ checker_calls = <<>>
    /\ NoImporter
    /\ pc = "Idle"
    /\ fs = EmptyFs
    /\ NoCall

(* ---------------------------------------------------------------- actions *)

Goto(phase) == pc' = phase /\ phases' = Append(phases, phase)

\* The call ends: build_template returns or raises
Finish(outcome) == result' = outcome /\ Goto("Done")

\* CDK.validate
ValidateImporting ==
    /\ caller = "orchestrator"
    /\ pc = "Idle"
    /\ validated = NoOutcome
    /\ \E m \in Machines :
          /\ machine' = m
          /\ checker_calls' = prerequisite_calls(m)
          /\ validated' = validate(arguments, m)
    /\ import_calls' = <<[template_path |-> NoPath, class_name |-> DEFAULT_CLASS_NAME]>>
    /\ UNCHANGED <<arguments, sceptre_user_data, builder>>
    /\ UNCHANGED <<handler_vars, importer_vars>>
    /\ UNCHANGED call_vars
Validate ==
    /\ caller = "orchestrator"
    /\ pc = "Idle"
    /\ validated = NoOutcome
    /\ \E m \in Machines :
          /\ machine' = m
          /\ checker_calls' = prerequisite_calls(m)
          /\ validated' = validate(arguments, m)
    /\ UNCHANGED <<arguments, sceptre_user_data, import_calls, builder>>
    /\ UNCHANGED <<handler_vars, importer_vars>>
    /\ UNCHANGED call_vars

\* The builder CDK.handle constructs once the class, if one is needed, is
\* imported
HandleBuilderByDeploymentType(args) ==
    IF args["deployment_type"] = "bootstrapped"
    THEN BootstrappedCdkBuilder(cdk_class_name(args))
    ELSE BootstraplessCdkBuilder(bootstrapless_config(args), cdk_class_name(args))
handle_builder(args) ==
    IF path_is_to_cdk_json(args)
    THEN CdkJsonBuilder(cdk_template_path(args), stack_logical_id_of(args), bootstrapless_config(args))
    ELSE IF args["deployment_type"] = "bootstrapped"
    THEN BootstrappedCdkBuilder(cdk_class_name(args))
    ELSE BootstraplessCdkBuilder(bootstrapless_config(args), cdk_class_name(args))

\* CDK.handle, up to its call of builder.build_template(context, user_data):
\* the builder is chosen, the stack class imported, the context made
Handle ==
    /\ caller = "orchestrator"
    /\ pc = "Idle"
    /\ validated.kind = "returned"
    /\ IF path_is_to_cdk_json(arguments)
       THEN /\ import_calls' = <<>>
            /\ builder' = handle_builder(arguments)
            /\ arguments' = arguments_after_make_context(arguments)
            /\ cdk_context' = make_context_to_use(arguments)
            /\ Goto("Synthesizing")
            /\ UNCHANGED result
       ELSE IF arguments["deployment_type"] \in {"bootstrapped", "bootstrapless"}
       THEN /\ import_calls' =
                   <<[template_path |-> cdk_template_path(arguments),
                      class_name |-> cdk_class_name(arguments)]>>
            /\ \E imported \in ImportOutcomes :
                  IF imported = "imported"
                  THEN /\ builder' = handle_builder(arguments)
                       /\ arguments' = arguments_after_make_context(arguments)
                       /\ cdk_context' = make_context_to_use(arguments)
                       /\ Goto("Synthesizing")
                       /\ UNCHANGED result
                  ELSE /\ Finish(Raised(imported, "", "import_class"))
                       /\ UNCHANGED <<builder, arguments, cdk_context>>
       ELSE /\ Finish(Raised("ValueError", "", "deployment_type must be 'bootstrapped' or 'bootstrapless'"))
            /\ UNCHANGED <<import_calls, builder, arguments, cdk_context>>
    /\ machine' = NoMachine
    /\ checker_calls' = <<>>
    /\ UNCHANGED <<sceptre_user_data, validated>>
    /\ UNCHANGED <<handler_vars, importer_vars>>
    /\ UNCHANGED <<assembly, manifest_artifact, assets_manifest, environment_variables,
                   output_dir, fs, subprocess_calls, stack_calls, synth_calls,
                   warnings>>

\* builder.build_template(cdk_context, sceptre_user_data), called on a builder
\* the caller constructed
BuildTemplate ==
    /\ caller = "direct"
    /\ pc = "Idle"
    /\ \E context \in Contexts, user_data \in UserDatas :
          /\ cdk_context' = context
          /\ sceptre_user_data' = user_data
    /\ Goto("Synthesizing")
    /\ UNCHANGED <<arguments, validated, machine, checker_calls, importer_vars, import_calls, builder, result>>
    /\ UNCHANGED handler_vars
    /\ UNCHANGED <<assembly, manifest_artifact, assets_manifest, environment_variables,
                   output_dir, fs, subprocess_calls, stack_calls, synth_calls,
                   warnings>>

\* self._stack_class(app, STACK_LOGICAL_ID, sceptre_user_data[, synthesizer=...])
\* on app = self._app_class(context=cdk_context)
StackCall(synthesizer) ==
    [app |-> [context |-> cdk_context], id |-> STACK_LOGICAL_ID,
     sceptre_user_data |-> sceptre_user_data, synthesizer |-> synthesizer]

\* The stack class is instantiated and the app synthesized; the stack class,
\* which is the user's code, may raise
InstantiateAndSynth(synthesizer) ==
    /\ stack_calls' = Append(stack_calls, StackCall(synthesizer))
    /\ \/ /\ Finish(Raised("Exception", "", "raised by the stack class"))
          /\ UNCHANGED <<assembly, synth_calls>>
       \/ /\ \E synthesized \in CloudAssemblies : assembly' = synthesized
          /\ synth_calls' = synth_calls + 1
          /\ Goto("ManifestInspection")
          /\ UNCHANGED result

unchanged_by_python_synth ==
    UNCHANGED <<arguments, sceptre_user_data, validated, machine, checker_calls, importer_vars, import_calls, builder,
                caller, initial_arguments, connection_manager, cdk_context,
                manifest_artifact, assets_manifest, environment_variables, output_dir,
                fs, subprocess_calls, warnings>>

\* BootstrappedCdkBuilder._synthesize
BootstrappedSynthesize ==
    /\ pc = "Synthesizing"
    /\ builder.class = "BootstrappedCdkBuilder"
    /\ InstantiateAndSynth(NoSynthesizer)
    /\ unchanged_by_python_synth

\* The TypeError of self._synthesizer_class(**self._bootstrapless_config)
SynthesizerRaisesOnAnyOption(config) == DictTruthy(config)
synthesizer_raises(config) == ~(DOMAIN config \subseteq SynthesizerParameters)

\* BootstraplessCdkBuilder._synthesize, lines 233-237: the TypeError is
\* re-raised as TemplateHandlerArgumentsInvalidError, chained to it
SynthesizerTypeErrorRaw == Raised("TypeError", "", "unexpected keyword argument")
synthesizer_error ==
    Raised("TemplateHandlerArgumentsInvalidError", "TypeError",
           "Error encountered attempting to instantiate the BootstraplessSynthesizer")

\* BootstraplessCdkBuilder._synthesize
BootstraplessSynthesize ==
    /\ pc = "Synthesizing"
    /\ builder.class = "BootstraplessCdkBuilder"
    /\ IF synthesizer_raises(builder.bootstrapless_config)
       THEN /\ Finish(synthesizer_error)
            /\ UNCHANGED <<stack_calls, assembly, synth_calls>>
       ELSE InstantiateAndSynth(Synthesizer(builder.bootstrapless_config))
    /\ unchanged_by_python_synth

\* PythonCdkBuilder.build_template, lines 134-135: the manifest is looked up
\* and inspected
PythonGetAssetsManifest ==
    /\ pc = "ManifestInspection"
    /\ builder.class \in PythonBuilderClasses
    /\ LET found == PythonCdkBuilder_get_assets_manifest(assembly) IN
       IF found = NoArtifact
       THEN /\ Finish(Raised("SceptreException", "", "CDK Asset manifest artifact not found"))
            /\ UNCHANGED manifest_artifact
       ELSE /\ manifest_artifact' = found
            /\ Goto(IF PythonCdkBuilder_only_asset_is_template(found)
                    THEN "SkipPublish" ELSE "Publishing")
            /\ UNCHANGED result
    /\ UNCHANGED <<arguments, sceptre_user_data, validated, machine, checker_calls, importer_vars, import_calls, builder,
                   caller, initial_arguments, connection_manager, cdk_context, assembly,
                   assets_manifest, environment_variables, output_dir, fs,
                   subprocess_calls, stack_calls, synth_calls, warnings>>

\* PythonCdkBuilder.build_template, lines 140-141: the assets are published
PythonPublish ==
    /\ pc = "Publishing"
    /\ builder.class \in PythonBuilderClasses
    /\ environment_variables' = get_envs(connection_manager)
    /\ connection_manager' = connection_manager_after(connection_manager, environment_variables')
    /\ \E ok \in BOOLEAN :
          /\ subprocess_calls' =
                 Append(subprocess_calls,
                        SubprocessCall(publish_command(manifest_artifact.file),
                                       environment_variables', InheritCwd, ok))
          /\ IF run_command_raises(ok) THEN Finish(run_command_error)
             ELSE Goto("TemplateExtraction") /\ UNCHANGED result
    /\ UNCHANGED <<arguments, sceptre_user_data, validated, machine, checker_calls, importer_vars, import_calls, builder,
                   caller, initial_arguments, cdk_context, assembly,
                   manifest_artifact, assets_manifest, output_dir, fs,
                   stack_calls, synth_calls, warnings>>

\* build_template, the branch that logs "Only asset is template; Skipping
\* asset upload."
SkipPublishThenPublish ==
    /\ pc = "SkipPublish"
    /\ Goto("Publishing")
    /\ UNCHANGED <<arguments, sceptre_user_data, validated, machine, checker_calls, importer_vars, import_calls, builder,
                   caller, initial_arguments, connection_manager, cdk_context, assembly,
                   manifest_artifact, assets_manifest, environment_variables, output_dir,
                   fs, subprocess_calls, stack_calls, synth_calls, warnings,
                   result>>
SkipPublish ==
    /\ pc = "SkipPublish"
    /\ Goto("TemplateExtraction")
    /\ UNCHANGED <<arguments, sceptre_user_data, validated, machine, checker_calls, importer_vars, import_calls, builder,
                   caller, initial_arguments, connection_manager, cdk_context, assembly,
                   manifest_artifact, assets_manifest, environment_variables, output_dir,
                   fs, subprocess_calls, stack_calls, synth_calls, warnings,
                   result>>

\* PythonCdkBuilder.build_template, lines 143-144
PythonGetTemplate ==
    /\ pc = "TemplateExtraction"
    /\ builder.class \in PythonBuilderClasses
    /\ Finish(Returned(PythonCdkBuilder_get_template(assembly)))
    /\ UNCHANGED <<arguments, sceptre_user_data, validated, machine, checker_calls, importer_vars, import_calls, builder,
                   caller, initial_arguments, connection_manager, cdk_context, assembly,
                   manifest_artifact, assets_manifest, environment_variables, output_dir,
                   fs, subprocess_calls, stack_calls, synth_calls, warnings>>

\* The environment of CdkJsonBuilder.build_template, lines 290-292
CdkJsonBuilderEnvsWithoutBss(cm, config) == get_envs(cm)
CdkJsonBuilder_envs(cm, config) ==
    IF DictTruthy(config) THEN add_bootstrapless_envs(get_envs(cm), config) ELSE get_envs(cm)

\* CdkJsonBuilder.build_template, lines 283-295: the warning, the
\* environment, the temporary directory and the synth command
CdkJsonSynthesize ==
    /\ pc = "Synthesizing"
    /\ builder.class = "CdkJsonBuilder"
    /\ warnings' = IF DictTruthy(sceptre_user_data) THEN warnings + 1 ELSE warnings
    /\ environment_variables' = CdkJsonBuilder_envs(connection_manager, builder.bootstrapless_config)
    /\ connection_manager' = connection_manager_after(connection_manager, environment_variables')
    /\ output_dir' = TemporaryDirectory(fs.dirs)
    /\ \E ok \in BOOLEAN :
          /\ subprocess_calls' =
                 Append(subprocess_calls,
                        SubprocessCall(create_synth_command(builder.stack_logical_id,
                                                            output_dir', cdk_context),
                                       environment_variables',
                                       ParentResolved(builder.cdk_json_path), ok))
          /\ IF run_command_raises(ok)
             THEN /\ fs' = RemoveDirectory(MakeDir(fs, output_dir'), output_dir')
                  /\ Finish(run_command_error)
             ELSE /\ \E written \in (IF ok THEN SynthOutputs(builder.stack_logical_id)
                                      ELSE {EmptyDict}) :
                        fs' = WriteFiles(MakeDir(fs, output_dir'), output_dir', written)
                  /\ Goto("ManifestInspection")
                  /\ UNCHANGED result
    /\ UNCHANGED <<arguments, sceptre_user_data, validated, machine, checker_calls, importer_vars, import_calls, builder,
                   caller, initial_arguments, cdk_context, assembly,
                   manifest_artifact, assets_manifest, stack_calls, synth_calls>>

\* CdkJsonBuilder.build_template, lines 296-297: the manifest file is read
\* and inspected
CdkJsonGetAssetsManifest ==
    /\ pc = "ManifestInspection"
    /\ builder.class = "CdkJsonBuilder"
    /\ LET assets_file == FilePath(output_dir, assets_file_name(builder.stack_logical_id)) IN
       IF ~Exists(fs, assets_file)
       THEN /\ Finish(Raised("SceptreException", "", "CDK Asset manifest artifact not found"))
            /\ fs' = RemoveDirectory(fs, output_dir)
            /\ UNCHANGED assets_manifest
       ELSE /\ assets_manifest' = fs.files[assets_file]
            /\ Goto(IF CdkJsonBuilder_only_asset_is_template(assets_manifest',
                                                             builder.stack_logical_id)
                    THEN "SkipPublish" ELSE "Publishing")
            /\ UNCHANGED <<result, fs>>
    /\ UNCHANGED <<arguments, sceptre_user_data, validated, machine, checker_calls, importer_vars, import_calls, builder,
                   caller, initial_arguments, connection_manager, cdk_context, assembly,
                   manifest_artifact, environment_variables, output_dir,
                   subprocess_calls, stack_calls, synth_calls, warnings>>

\* CdkJsonBuilder.build_template, lines 302-303
CdkJsonPublish ==
    /\ pc = "Publishing"
    /\ builder.class = "CdkJsonBuilder"
    /\ LET assets_file == FilePath(output_dir, assets_file_name(builder.stack_logical_id)) IN
       \E ok \in BOOLEAN :
          /\ subprocess_calls' =
                 Append(subprocess_calls,
                        SubprocessCall(publish_command(PathStr(assets_file)),
                                       environment_variables, InheritCwd, ok))
          /\ IF run_command_raises(ok)
             THEN Finish(run_command_error) /\ fs' = RemoveDirectory(fs, output_dir)
             ELSE Goto("TemplateExtraction") /\ UNCHANGED <<result, fs>>
    /\ UNCHANGED <<arguments, sceptre_user_data, validated, machine, checker_calls, importer_vars, import_calls, builder,
                   caller, initial_arguments, connection_manager, cdk_context, assembly,
                   manifest_artifact, assets_manifest, environment_variables, output_dir,
                   stack_calls, synth_calls, warnings>>

\* CdkJsonBuilder._get_template: json.load of the template file
CdkJsonBuilder_get_template(f, template_file) == f.files[template_file]

\* CdkJsonBuilder.build_template, lines 305-307, and the end of the with block
CdkJsonGetTemplate ==
    /\ pc = "TemplateExtraction"
    /\ builder.class = "CdkJsonBuilder"
    /\ LET template_file == FilePath(output_dir, template_file_name(builder.stack_logical_id)) IN
       IF Exists(fs, template_file)
       THEN Finish(Returned(CdkJsonBuilder_get_template(fs, template_file)))
       ELSE Finish(Raised("FileNotFoundError", "", PathStr(template_file)))
    /\ fs' = RemoveDirectory(fs, output_dir)
    /\ UNCHANGED <<arguments, sceptre_user_data, validated, machine, checker_calls, importer_vars, import_calls, builder,
                   caller, initial_arguments, connection_manager, cdk_context, assembly,
                   manifest_artifact, assets_manifest, environment_variables, output_dir,
                   subprocess_calls, stack_calls, synth_calls, warnings>>

\* The call is over and its caller has the outcome: nothing of the call is
\* kept, the handler's builder included
Return ==
    /\ pc = "Done"
    /\ pc' = "Idle"
    /\ phases' = <<>>
    /\ cdk_context' = EmptyDict
    /\ assembly' = NoAssembly
    /\ manifest_artifact' = NoArtifact
    /\ assets_manifest' = EmptyDict
    /\ environment_variables' = EmptyDict
    /\ output_dir' = ""
    /\ subprocess_calls' = <<>>
    /\ stack_calls' = <<>>
    /\ synth_calls' = 0
    /\ warnings' = 0
    /\ result' = NoOutcome
    /\ import_calls' = <<>>
    /\ builder' = IF caller = "orchestrator" THEN NoBuilder ELSE builder
    /\ UNCHANGED <<arguments, sceptre_user_data, validated, machine, checker_calls, importer_vars, fs>>
    /\ UNCHANGED handler_vars

Next ==
    \/ Validate
    \/ Handle
    \/ BuildTemplate
    \/ BootstrappedSynthesize
    \/ BootstraplessSynthesize
    \/ CdkJsonSynthesize
    \/ PythonGetAssetsManifest
    \/ CdkJsonGetAssetsManifest
    \/ PythonPublish
    \/ CdkJsonPublish
    \/ SkipPublish
    \/ PythonGetTemplate
    \/ CdkJsonGetTemplate
    \/ Return

Spec == Init /\ [][Next]_vars

(* --------------------------------------- validation on any configuration *)

\* A second specification drives CDK.validate alone, over the configurations
\* a stack config can hold whether or not they are valid, and drives a
\* CommandChecker that a caller constructed.

\* Context values that are not strings
NestedContexts ==
    { "something" :> ListValue("['illegal']"),
      "something" :> DictValue("{'illegal': 'value'}") }

\* File names in other letter cases
ValidatePaths == Paths \cup {PathOf("Cdk", ".json"), PathOf("PATH", ".PY")}

\* The arguments of a handler: every argument, the required ones too, may be
\* left out
ValidateArgumentSets ==
    { p @@ d @@ q @@ c @@ s @@ b :
        p \in Optional("path", ValidatePaths),
        d \in Optional("deployment_type", DeploymentTypes),
        q \in Optional("bootstrap_qualifier", Qualifiers),
        c \in Optional("context", Contexts \cup NestedContexts),
        s \in Optional("stack_logical_id", {"MyCdkStack"}),
        b \in Optional("bootstrapless_config", BootstraplessConfigs) }

\* The file cdk_template_path names, and the file systems a handler can find:
\* the file is there, or it is not
TemplateFile(args) ==
    FilePath(ProjectPath \o "/templates" \o JoinDirs(args["path"].dirs), PathName(args["path"]))
TemplateFileSystems(args) ==
    {EmptyFs} \cup
        (IF "path" \in DOMAIN args
         THEN {[dirs |-> {}, files |-> (TemplateFile(args) :> ("source" :> "code"))]}
         ELSE {})

\* The node packages a caller asks a CommandChecker for
Packages == {"cdk-assets", "aws-cdk"}

InitValidate ==
    /\ connection_manager = [region |-> "us-west-2", environment |-> "PATH" :> "blah:blah:blah",
                             shares_mapping |-> FALSE]
    /\ \/ /\ caller = "orchestrator"
          /\ arguments \in ValidateArgumentSets
          /\ fs \in TemplateFileSystems(arguments)
       \/ /\ caller = "checker"
          /\ arguments = EmptyDict
          /\ fs = EmptyFs
    /\ sceptre_user_data = EmptyDict
    /\ builder = NoBuilder
    /\ initial_arguments = arguments
    /\ validated = NoOutcome
    /\ machine = NoMachine
    /\ checker_calls = <<>>
    /\ NoImporter
    /\ pc = "Idle"
    /\ NoCall

\* CommandChecker.node_package_exists(package), called on a checker the
\* caller constructed
NodePackageExists ==
    /\ caller = "checker"
    /\ result = NoOutcome
    /\ \E m \in Machines, package \in Packages :
          /\ machine' = m
          /\ checker_calls' = node_package_calls(m, package)
          /\ result' = Returned(node_package_exists(m, package))
    /\ UNCHANGED <<arguments, sceptre_user_data, validated, import_calls, builder>>
    /\ UNCHANGED <<handler_vars, importer_vars>>
    /\ UNCHANGED <<pc, phases, cdk_context, assembly, manifest_artifact, assets_manifest,
                   environment_variables, output_dir, fs, subprocess_calls, stack_calls,
                   synth_calls, warnings>>

NextValidate ==
    \/ Validate
    \/ NodePackageExists

ValidateSpec == InitValidate /\ [][NextValidate]_vars

(* ----------------------------------------------------------------- claims *)

IsPythonBuilder == builder.class \in {"BootstrappedCdkBuilder", "BootstraplessCdkBuilder"}
IsCdkJsonBuilder == builder.class = "CdkJsonBuilder"

\* The asset manifest artifacts of the synthesized assembly
ManifestIndexes == {i \in 1..Len(assembly.artifacts) :
                       assembly.artifacts[i].type = "AssetManifestArtifact"}
SynthesizedManifest == assembly.artifacts[CHOOSE i \in ManifestIndexes : TRUE]
ManifestIsOnlyTemplate ==
    /\ SynthesizedManifest.docker_images = EmptyDict
    /\ SynthesizedManifest.files = <<"CDKStack.template.json">>

\* C1: a Python builder whose synthesized manifest has no image asset and
\* exactly the one file key 'CDKStack.template.json' runs no subprocess at
\* all; for every other manifest it has run the publish command exactly once
\* when build_template ends.
C1_PythonPublishDecision ==
    (IsPythonBuilder /\ ManifestIndexes # {}) =>
        /\ ManifestIsOnlyTemplate => subprocess_calls = <<>>
        /\ Len(subprocess_calls) <= 1
        /\ (pc = "Done" /\ ~ManifestIsOnlyTemplate) =>
              /\ Len(subprocess_calls) = 1
              /\ subprocess_calls[1].command =
                     "npx cdk-assets -v publish --path " \o SynthesizedManifest.file

C1_Witness ==
    /\ pc = "Done"
    /\ IsPythonBuilder
    /\ ManifestIndexes # {}
    /\ ManifestIsOnlyTemplate
    /\ result.kind = "returned"
    /\ subprocess_calls = <<>>

\* The manifest JSON was read by this call
AssetsManifestRead ==
    /\ IsCdkJsonBuilder
    /\ Len(phases) >= 3
    /\ phases[3] \in {"SkipPublish", "Publishing"}
JsonManifestIsOnlyTemplate ==
    /\ ("dockerImages" \in DOMAIN assets_manifest => assets_manifest["dockerImages"] = EmptyDict)
    /\ "files" \in DOMAIN assets_manifest
    /\ assets_manifest["files"] = <<builder.stack_logical_id \o ".template.json">>
ExpectedPublishCommand ==
    "npx cdk-assets -v publish --path " \o output_dir \o "/"
        \o builder.stack_logical_id \o ".assets.json"

\* C2: a CdkJsonBuilder whose synth succeeded runs no publisher when the
\* manifest JSON has no (or an empty) dockerImages and the keys of files are
\* exactly '<stack_logical_id>.template.json'; in every other case it has run
\* the publisher exactly once, against <output_dir>/<stack_logical_id>.assets.json,
\* when build_template ends.  The first subprocess call is the synth command.
C2_CdkJsonPublishDecision ==
    AssetsManifestRead =>
        /\ JsonManifestIsOnlyTemplate => Len(subprocess_calls) = 1
        /\ Len(subprocess_calls) <= 2
        /\ (pc = "Done" /\ ~JsonManifestIsOnlyTemplate) =>
              /\ Len(subprocess_calls) = 2
              /\ subprocess_calls[2].command = ExpectedPublishCommand

C2_Witness ==
    /\ pc = "Done"
    /\ AssetsManifestRead
    /\ builder.stack_logical_id = "MyCdkStack"
    /\ JsonManifestIsOnlyTemplate
    /\ result.kind = "returned"
    /\ Len(subprocess_calls) = 1

\* C3: when a subprocess of the build failed, build_template has raised
\* CdkInvocationError, not the raw subprocess error.
C3_InvocationErrorRaised ==
    (pc = "Done" /\ \E i \in 1..Len(subprocess_calls) : ~subprocess_calls[i].ok) =>
        /\ result.kind = "raised"
        /\ result.exc = "CdkInvocationError"

\* The phases of a call in which every step succeeded
CompletePhases ==
    {<<"Synthesizing", "ManifestInspection", p, "TemplateExtraction", "Done">> :
        p \in {"SkipPublish", "Publishing"}}

\* C4: a build_template call that is over has returned a template or raised;
\* it returned one only if synthesis succeeded, the manifest was found and
\* publishing was skipped or ran successfully; a call in which a subprocess
\* failed raised; and no step ran twice.
C4_NoPartialSuccess ==
    /\ (pc = "Done") => result.kind \in {"returned", "raised"}
    /\ (pc # "Done") => result.kind = "none"
    /\ result.kind = "returned" =>
          /\ phases \in CompletePhases
          /\ \A i \in 1..Len(subprocess_calls) : subprocess_calls[i].ok
          /\ IsPythonBuilder =>
                /\ synth_calls = 1
                /\ ManifestIndexes # {}
                /\ Len(subprocess_calls) = (IF phases[3] = "Publishing" THEN 1 ELSE 0)
          /\ IsCdkJsonBuilder =>
                Len(subprocess_calls) = (IF phases[3] = "Publishing" THEN 2 ELSE 1)
    /\ (pc = "Done" /\ \E i \in 1..Len(subprocess_calls) : ~subprocess_calls[i].ok) =>
          result.kind = "raised"
    /\ synth_calls <= 1
    /\ Len(stack_calls) <= 1
    /\ Len(subprocess_calls) <= (IF IsCdkJsonBuilder THEN 2 ELSE 1)
    /\ \A i, j \in 1..Len(phases) : i # j => phases[i] # phases[j]

C4_Witness ==
    /\ pc = "Done"
    /\ result.kind = "raised"
    /\ Len(subprocess_calls) = 2
    /\ ~subprocess_calls[2].ok

\* The BSS_ variable of each bootstrapless option of the model
ExpectedBssName ==
    ("file_asset_bucket_name" :> "BSS_FILE_ASSET_BUCKET_NAME")
        @@ ("some_unknown_configuration" :> "BSS_SOME_UNKNOWN_CONFIGURATION")
ExpectedBssNames ==
    IF IsCdkJsonBuilder
    THEN {ExpectedBssName[k] : k \in DOMAIN builder.bootstrapless_config}
    ELSE {}

\* C5: every subprocess of a build receives the connection manager's
\* environment with CDK_DEFAULT_REGION set to the region (whatever the
\* environment held for it), and a BSS_<KEY> variable for each bootstrapless
\* option exactly when the builder is the CdkJsonBuilder.
C5_SubprocessEnvironment ==
    \A i \in 1..Len(subprocess_calls) :
        LET env == subprocess_calls[i].env
            base == connection_manager.environment
        IN /\ DOMAIN env = DOMAIN base \cup {"CDK_DEFAULT_REGION"} \cup ExpectedBssNames
           /\ env["CDK_DEFAULT_REGION"] = connection_manager.region
           /\ IsCdkJsonBuilder =>
                 \A k \in DOMAIN builder.bootstrapless_config :
                     env[ExpectedBssName[k]] = builder.bootstrapless_config[k]
           /\ \A name \in DOMAIN base \ ({"CDK_DEFAULT_REGION"} \cup ExpectedBssNames) :
                 env[name] = base[name]

C5_Witness ==
    /\ IsCdkJsonBuilder
    /\ Len(subprocess_calls) = 2
    /\ builder.bootstrapless_config = ("file_asset_bucket_name" :> "my_bucket")
    /\ "CDK_DEFAULT_REGION" \in DOMAIN connection_manager.environment
    /\ subprocess_calls[2].env["BSS_FILE_ASSET_BUCKET_NAME"] = "my_bucket"
    /\ subprocess_calls[2].env["CDK_DEFAULT_REGION"] = "us-west-2"

\* handle goes from Idle to its call of build_template
HandleCallsBuildTemplate == caller = "orchestrator" /\ pc = "Idle" /\ pc' = "Synthesizing"
ContextOnEntry == IF "context" \in DOMAIN arguments THEN arguments["context"] ELSE EmptyDict
QualifierKey == "@aws-cdk/core:bootstrapQualifier"

\* C6 as claimed: the context passed to build_template is the context on
\* entry when that holds the qualifier key; otherwise it is the context on
\* entry plus the key set to bootstrap_qualifier when bootstrap_qualifier is
\* set, and the context on entry when it is not set.
C6_QualifierInjectionWhenSet ==
    [][HandleCallsBuildTemplate =>
          cdk_context' =
              IF QualifierKey \in DOMAIN ContextOnEntry THEN ContextOnEntry
              ELSE IF "bootstrap_qualifier" \in DOMAIN arguments
              THEN (QualifierKey :> [type |-> "str", val |-> arguments["bootstrap_qualifier"]])
                       @@ ContextOnEntry
              ELSE ContextOnEntry]_vars

\* C6 amended: as above, but the key is added only when bootstrap_qualifier
\* is set to a non-empty string; an empty bootstrap_qualifier leaves the
\* context as it is.
C6_QualifierInjection ==
    [][HandleCallsBuildTemplate =>
          cdk_context' =
              IF QualifierKey \in DOMAIN ContextOnEntry THEN ContextOnEntry
              ELSE IF /\ "bootstrap_qualifier" \in DOMAIN arguments
                      /\ arguments["bootstrap_qualifier"] # ""
              THEN (QualifierKey :> [type |-> "str", val |-> arguments["bootstrap_qualifier"]])
                       @@ ContextOnEntry
              ELSE ContextOnEntry]_vars

C6_Witness ==
    /\ caller = "orchestrator"
    /\ pc = "Synthesizing"
    /\ "context" \in DOMAIN initial_arguments
    /\ QualifierKey \in DOMAIN initial_arguments["context"]
    /\ "bootstrap_qualifier" \in DOMAIN initial_arguments
    /\ initial_arguments["bootstrap_qualifier"] = "blardyblahr"
    /\ cdk_context = initial_arguments["context"]
    /\ cdk_context[QualifierKey].val = "existing"

\* C7: the template build_template returns is the one synthesis produced for
\* the named stack: the template of the assembly's stack 'CDKStack' for a
\* Python builder, the contents of <output_dir>/<stack_logical_id>.template.json
\* for the CdkJsonBuilder.
C7_ReturnsSynthesizedTemplate ==
    [][(pc = "TemplateExtraction" /\ result'.kind = "returned") =>
          result'.value =
              IF IsPythonBuilder THEN assembly.stacks["CDKStack"]
              ELSE fs.files[<<output_dir, builder.stack_logical_id \o ".template.json">>]]_vars

C7_Witness ==
    /\ pc = "Done"
    /\ result.kind = "returned"
    /\ IsCdkJsonBuilder
    /\ builder.stack_logical_id = "MyCdkStack"
    /\ result.value = ("Resources" :> "AWS::SQS::Queue")

\* Synthesis left no asset manifest
ManifestMissing ==
    IF IsPythonBuilder THEN ManifestIndexes = {}
    ELSE <<output_dir, builder.stack_logical_id \o ".assets.json">> \notin DOMAIN fs.files

\* C8: when synthesis left no asset manifest (no manifest artifact in the
\* assembly; no <stack_logical_id>.assets.json in the output directory),
\* manifest inspection ends the call with a SceptreException: the publish
\* command has not run, and no template is extracted or returned.
C8_MissingManifestIsFatal ==
    [][(pc = "ManifestInspection" /\ ManifestMissing) =>
          /\ pc' = "Done"
          /\ result'.kind = "raised"
          /\ result'.exc = "SceptreException"
          /\ Len(subprocess_calls') = (IF IsCdkJsonBuilder THEN 1 ELSE 0)]_vars

C8_Witness ==
    /\ pc = "Done"
    /\ phases = <<"Synthesizing", "ManifestInspection", "Done">>
    /\ result.exc = "SceptreException"
    /\ IsPythonBuilder
    /\ assembly.artifacts = <<OtherArtifact>>

\* The options BootstraplessStackSynthesizer does not know
UnknownSynthesizerOptions ==
    DOMAIN builder.bootstrapless_config \ SchemaBootstraplessProperties

\* C9: once BootstraplessCdkBuilder has synthesized: if the configuration
\* holds an option the synthesizer rejects with TypeError, the call raised
\* TemplateHandlerArgumentsInvalidError chained to the TypeError and neither
\* the stack class, app.synth nor a subprocess was invoked; otherwise the
\* stack class was invoked exactly once, with (app, 'CDKStack', user_data,
\* synthesizer=the synthesizer made from the configuration).
C9_BootstraplessSynthesizer ==
    (builder.class = "BootstraplessCdkBuilder" /\ pc \notin {"Idle", "Synthesizing"}) =>
        IF UnknownSynthesizerOptions # {}
        THEN /\ pc = "Done"
             /\ result.kind = "raised"
             /\ result.exc = "TemplateHandlerArgumentsInvalidError"
             /\ result.cause = "TypeError"
             /\ stack_calls = <<>>
             /\ synth_calls = 0
             /\ subprocess_calls = <<>>
        ELSE stack_calls =
                 <<[app |-> [context |-> cdk_context], id |-> "CDKStack",
                    sceptre_user_data |-> sceptre_user_data,
                    synthesizer |-> [constructed |-> TRUE,
                                     kwargs |-> builder.bootstrapless_config]]>>

C9_Witness ==
    /\ builder.class = "BootstraplessCdkBuilder"
    /\ pc = "Done"
    /\ UnknownSynthesizerOptions # {}
    /\ result.exc = "TemplateHandlerArgumentsInvalidError"
    /\ result.cause = "TypeError"

\* validate has run, on a handler with the given deployment_type
ValidatedWith(deployment_type) ==
    /\ validated.kind # "none"
    /\ machine # NoMachine
    /\ arguments["deployment_type"] = deployment_type
RejectedAsInvalid ==
    validated.kind = "raised" /\ validated.exc = "TemplateHandlerArgumentsInvalidError"

PrerequisitesPresent ==
    /\ {"node", "npx"} \subseteq machine.which
    /\ (machine.npm_workspace = 0 \/ machine.npm_global = 0)

MaxImports == 2

\* str(directory) of an absolute directory chain, and Path.name of it
DirString(dirs) == IF dirs = <<>> THEN "/" ELSE JoinDirs(dirs)
DirName(dirs) == IF dirs = <<>> THEN "" ELSE dirs[Len(dirs)]

\* str(template_path): an absolute path starts with "/", a relative one with
\* its first directory
PathString(p) ==
    IF p.abs THEN JoinDirs(p.dirs) \o "/" \o PathName(p)
    ELSE IF p.dirs = <<>> THEN PathName(p)
    ELSE Head(p.dirs) \o JoinDirs(Tail(p.dirs)) \o "/" \o PathName(p)

\* template_path.resolve(): the directory chain of the file; a relative path
\* is resolved against the working directory (the paths of the model hold no
\* symbolic link and no "..")
ResolvedDirs(p, cwd) == IF p.abs THEN p.dirs ELSE cwd \o p.dirs

\* resolved_template_path.parents: the file's directory first, the root last
PathParents(dirs) == [i \in 1..(Len(dirs) + 1) |-> SubSeq(dirs, 1, Len(dirs) + 1 - i)]

\* cwd in resolved_template_path.parents
IsAncestor(cwd, dirs) == \E i \in 1..(Len(dirs) + 1) : PathParents(dirs)[i] = cwd

\* str.isidentifier() of the directory names of the model
isidentifier(name) == name \notin {"", "class-dir"}

\* '.'.join(module_path_segments)
RECURSIVE Dotted(_)
Dotted(segments) ==
    IF Len(segments) = 1 THEN Head(segments)
    ELSE Head(segments) \o "." \o Dotted(Tail(segments))

\* The loop of _enable_import_hierarchy over the parents that are left: every
\* parent is appended to sys.path; its name goes in front of the segments as
\* long as the package structure is unbroken; the loop ends after the cwd
RECURSIVE ClimbPastBrokenChain(_, _, _, _, _)
ClimbPastBrokenChain(f, parents, cwd, in_package_structure, acc) ==
    LET parent == Head(parents)
        is_package ==
            /\ Exists(f, FilePath(DirString(parent), "__init__.py"))
            /\ isidentifier(DirName(parent))
        next ==
            [module_path_segments |->
                 IF is_package THEN <<DirName(parent)>> \o acc.module_path_segments
                 ELSE acc.module_path_segments,
             sys_path |-> Append(acc.sys_path, DirString(parent))]
    IN IF parent = cwd THEN next
       ELSE ClimbPastBrokenChain(f, Tail(parents), cwd, is_package, next)
RECURSIVE ClimbAppendingOnce(_, _, _, _, _)
ClimbAppendingOnce(f, parents, cwd, in_package_structure, acc) ==
    LET parent == Head(parents)
        is_package ==
            /\ in_package_structure
            /\ Exists(f, FilePath(DirString(parent), "__init__.py"))
            /\ isidentifier(DirName(parent))
        next ==
            [module_path_segments |->
                 IF is_package THEN <<DirName(parent)>> \o acc.module_path_segments
                 ELSE acc.module_path_segments,
             sys_path |->
                 IF \E i \in 1..Len(acc.sys_path) : acc.sys_path[i] = DirString(parent)
                 THEN acc.sys_path
                 ELSE Append(acc.sys_path, DirString(parent))]
    IN IF parent = cwd THEN next
       ELSE ClimbAppendingOnce(f, Tail(parents), cwd, is_package, next)
RECURSIVE climb(_, _, _, _, _)
climb(f, parents, cwd, in_package_structure, acc) ==
    LET parent == Head(parents)
        is_package ==
            /\ in_package_structure
            /\ Exists(f, FilePath(DirString(parent), "__init__.py"))
            /\ isidentifier(DirName(parent))
        next ==
            [module_path_segments |->
                 IF is_package THEN <<DirName(parent)>> \o acc.module_path_segments
                 ELSE acc.module_path_segments,
             sys_path |-> Append(acc.sys_path, DirString(parent))]
    IN IF parent = cwd THEN next
       ELSE climb(f, Tail(parents), cwd, is_package, next)

\* ClassImporter._enable_import_hierarchy: the module name, and sys.path after
enable_import_hierarchy(f, template_path, cwd, path) ==
    IF ~IsAncestor(cwd, ResolvedDirs(template_path, cwd))
    THEN [name |-> template_path.stem, sys_path |-> path]
    ELSE LET climbed ==
                 climb(f, PathParents(ResolvedDirs(template_path, cwd)), cwd, TRUE,
                       [module_path_segments |-> <<template_path.stem>>, sys_path |-> path])
         IN [name |-> Dotted(climbed.module_path_segments), sys_path |-> climbed.sys_path]

\* The file str(template_path) opens
ImportedFile(template_path, cwd) ==
    FilePath(DirString(ResolvedDirs(template_path, cwd)), PathName(template_path))

\* import_class, lines 35-40: the named attribute is not on the module
ClassNotFoundRaw(class_name, template_path) ==
    Raised("AttributeError", "", "module has no attribute " \o class_name)
class_not_found(class_name, template_path) ==
    Raised("SceptreException", "",
           "No class named  " \o class_name \o " on template at " \o PathString(template_path))

\* ClassImporter.import_class once the module name is known: the file is
\* executed as a module of that name, and the attribute looked up. A source
\* file of the model is the exception its execution raises ("" for none)
\* and the attributes it defines.
import_class(f, template_path, class_name, cwd, module_name) ==
    LET file == ImportedFile(template_path, cwd) IN
    IF ~Exists(f, file) THEN Raised("FileNotFoundError", "", PathString(template_path))
    ELSE IF f.files[file].raises # "" THEN Raised(f.files[file].raises, "", "")
    ELSE IF class_name \in DOMAIN f.files[file].attributes
    THEN Returned([class |-> f.files[file].attributes[class_name], module |-> module_name])
    ELSE class_not_found(class_name, template_path)

\* The source files of the model: one defines the class asked for, one raises
\* when executed
SourceFiles ==
    { [raises |-> "", attributes |-> ("MyFancyClassToImport" :> "Success!")],
      [raises |-> "ValueError", attributes |-> EmptyDict] }

\* The directories of the model, the file's directory last, and the package
\* markers they can hold
ProjectDirs == <<"work", "parent_dir", "class_dir">>
OtherProjectDirs == <<"work", "parent_dir", "class-dir">>
MarkerDirs == {<<"work">>, <<"work", "parent_dir">>, ProjectDirs, OtherProjectDirs}
MarkerFiles(dirs) == [fp \in {FilePath(DirString(d), "__init__.py") : d \in dirs} |-> EmptyDict]

\* The file systems an importer finds: package markers in some directories,
\* and file_to_import.py in both file directories, or nowhere
ImportFileSystems ==
    { [dirs |-> {}, files |-> sources @@ MarkerFiles(markers)] :
        markers \in SUBSET MarkerDirs,
        sources \in {EmptyDict} \cup
            { [fp \in {FilePath(DirString(ProjectDirs), "file_to_import.py"),
                       FilePath(DirString(OtherProjectDirs), "file_to_import.py")} |-> source] :
                source \in SourceFiles } }

WorkingDirectories == {<<"work">>, <<"work", "parent_dir">>, <<"elsewhere">>}

\* The paths and class names import_class is called with
ImportPaths ==
    { [dirs |-> ProjectDirs, stem |-> "file_to_import", suffix |-> ".py", abs |-> TRUE],
      [dirs |-> OtherProjectDirs, stem |-> "file_to_import", suffix |-> ".py", abs |-> TRUE],
      [dirs |-> <<"parent_dir", "class_dir">>, stem |-> "file_to_import", suffix |-> ".py",
       abs |-> FALSE] }
ClassNames == {"MyFancyClassToImport", "CantFindMe"}

InitialSysPath == <<"/usr/lib/python3">>

InitImport ==
    /\ connection_manager = [region |-> "us-west-2", environment |-> "PATH" :> "blah:blah:blah",
                             shares_mapping |-> FALSE]
    /\ caller = "importer"
    /\ arguments = EmptyDict
    /\ initial_arguments = arguments
    /\ sceptre_user_data = EmptyDict
    /\ builder = NoBuilder
    /\ validated = NoOutcome
    /\ machine = NoMachine
    /\ checker_calls = <<>>
    /\ fs \in ImportFileSystems
    /\ working_directory \in WorkingDirectories
    /\ sys_path = InitialSysPath
    /\ template_module_name = ""
    /\ pc = "Idle"
    /\ NoCall

\* ClassImporter.import_class(template_path, class_name)
ImportClass ==
    /\ caller = "importer"
    /\ Len(import_calls) < MaxImports
    /\ \E template_path \in ImportPaths, class_name \in ClassNames :
          LET hierarchy ==
                  enable_import_hierarchy(fs, template_path, working_directory, sys_path)
          IN /\ import_calls' =
                    Append(import_calls, [template_path |-> template_path, class_name |-> class_name])
             /\ sys_path' = hierarchy.sys_path
             /\ template_module_name' = hierarchy.name
             /\ result' = import_class(fs, template_path, class_name, working_directory,
                                       hierarchy.name)
    /\ UNCHANGED <<arguments, sceptre_user_data, validated, machine, checker_calls, builder,
                   working_directory>>
    /\ UNCHANGED handler_vars
    /\ UNCHANGED <<pc, phases, cdk_context, assembly, manifest_artifact, assets_manifest,
                   environment_variables, output_dir, fs, subprocess_calls, stack_calls,
                   synth_calls, warnings>>

NextImport == ImportClass

ImportSpec == InitImport /\ [][NextImport]_vars

(* ---------------------------------------------------- claims on validation *)

\* validate has run on the handler
ValidateRan == caller = "orchestrator" /\ validated.kind # "none" /\ machine # NoMachine

\* The path argument names a cdk.json file, in any letter case
CdkJsonNames == {"cdk.json", "Cdk.json", "CDK.JSON"}
PathIsCdkJson ==
    "path" \in DOMAIN arguments /\
        (arguments["path"].stem \o arguments["path"].suffix) \in CdkJsonNames
PathIsPython == "path" \in DOMAIN arguments /\ arguments["path"].suffix = ".py"

\* Some value of the context is a list or a mapping
HasNestedContext ==
    "context" \in DOMAIN arguments /\
        \E k \in DOMAIN arguments["context"] : arguments["context"][k].type # "str"

\* Nothing but the path and the context could make validate reject the
\* arguments
OtherwiseValid ==
    /\ PrerequisitesPresent
    /\ "deployment_type" \in DOMAIN arguments
    /\ arguments["deployment_type"] \in {"bootstrapped", "bootstrapless"}
    /\ "bootstrapless_config" \in DOMAIN arguments =>
          /\ DOMAIN arguments["bootstrapless_config"] \subseteq {"file_asset_bucket_name"}
          /\ arguments["deployment_type"] = "bootstrapless"
    /\ "bootstrap_qualifier" \in DOMAIN arguments =>
          arguments["deployment_type"] = "bootstrapped"

\* C11 as claimed: with a path to a cdk.json file, validate raises
\* TemplateHandlerArgumentsInvalidError if a context value is a list or a
\* mapping, and if stack_logical_id is not specified; with a path to a Python
\* file, nested context values are not rejected.
C11_CdkJsonChecksAlways ==
    /\ (/\ ValidateRan
        /\ PathIsCdkJson
        /\ (HasNestedContext \/ "stack_logical_id" \notin DOMAIN arguments)) => RejectedAsInvalid
    /\ (ValidateRan /\ PathIsPython /\ HasNestedContext /\ OtherwiseValid) =>
          validated.kind = "returned"

\* C11 amended: the same, once no prerequisite is missing (a missing
\* prerequisite makes validate raise its SceptreException before it looks at
\* the arguments).
C11_CdkJsonChecks ==
    /\ (/\ ValidateRan
        /\ PrerequisitesPresent
        /\ PathIsCdkJson
        /\ (HasNestedContext \/ "stack_logical_id" \notin DOMAIN arguments)) => RejectedAsInvalid
    /\ (ValidateRan /\ PathIsPython /\ HasNestedContext /\ OtherwiseValid) =>
          validated.kind = "returned"

C11_Witness ==
    /\ ValidateRan
    /\ PrerequisitesPresent
    /\ PathIsCdkJson
    /\ arguments["path"].stem = "Cdk"
    /\ "stack_logical_id" \in DOMAIN arguments
    /\ "context" \in DOMAIN arguments
    /\ arguments["context"] = ("something" :> [type |-> "list", val |-> "['illegal']"])
    /\ RejectedAsInvalid
    /\ validated.msg = "You cannot use nested values within your CDK context"

\* C12 as claimed: validate raises TemplateHandlerArgumentsInvalidError for
\* every path that is neither a file named cdk.json (in any letter case) nor
\* a file with the suffix .py.
C12_RejectsOtherPathsAlways ==
    (ValidateRan /\ "path" \in DOMAIN arguments /\ ~PathIsCdkJson /\ ~PathIsPython) =>
        RejectedAsInvalid

\* C12 amended: the same, once no prerequisite is missing.
C12_RejectsOtherPaths ==
    (/\ ValidateRan
     /\ PrerequisitesPresent
     /\ "path" \in DOMAIN arguments
     /\ ~PathIsCdkJson
     /\ ~PathIsPython) => RejectedAsInvalid

C12_Witness ==
    /\ ValidateRan
    /\ PrerequisitesPresent
    /\ DOMAIN arguments = {"path", "deployment_type"}
    /\ arguments["path"].suffix = ".PY"
    /\ arguments["deployment_type"] = "bootstrapped"
    /\ RejectedAsInvalid

(* ------------------------------------------------------ claims on dispatch *)

ExpectedBuilderClass ==
    IF PathIsCdkJson THEN "CdkJsonBuilder"
    ELSE IF arguments["deployment_type"] = "bootstrapped" THEN "BootstrappedCdkBuilder"
    ELSE "BootstraplessCdkBuilder"

HandleRuns == caller = "orchestrator" /\ pc = "Idle" /\ validated.kind = "returned" /\ pc' # "Idle"

\* <project_path>/templates/<path>
ExpectedTemplatePath ==
    [dirs |-> <<"root_sceptre_dir", "templates">> \o arguments["path"].dirs,
     stem |-> arguments["path"].stem, suffix |-> arguments["path"].suffix, abs |-> FALSE]
ExpectedClassName ==
    IF "class_name" \in DOMAIN arguments THEN arguments["class_name"] ELSE "CdkStack"
ExpectedConfig ==
    IF "bootstrapless_config" \in DOMAIN arguments THEN arguments["bootstrapless_config"]
    ELSE EmptyDict
ExpectedImportCalls ==
    IF PathIsCdkJson THEN <<>>
    ELSE <<[template_path |-> ExpectedTemplatePath, class_name |-> ExpectedClassName]>>

\* The one builder handle is to construct
ExpectedBuilder ==
    IF PathIsCdkJson
    THEN [class |-> "CdkJsonBuilder", stack_class |-> "", cdk_json_path |-> ExpectedTemplatePath,
          stack_logical_id |->
              IF "stack_logical_id" \in DOMAIN arguments THEN arguments["stack_logical_id"]
              ELSE "None",
          bootstrapless_config |-> ExpectedConfig]
    ELSE IF arguments["deployment_type"] = "bootstrapped"
    THEN [class |-> "BootstrappedCdkBuilder", stack_class |-> ExpectedClassName,
          cdk_json_path |-> NoPath, stack_logical_id |-> "", bootstrapless_config |-> EmptyDict]
    ELSE [class |-> "BootstraplessCdkBuilder", stack_class |-> ExpectedClassName,
          cdk_json_path |-> NoPath, stack_logical_id |-> "",
          bootstrapless_config |-> ExpectedConfig]

\* handle has constructed the expected builder and called its build_template
\* with (context, sceptre_user_data)
BuildsWithExpectedBuilder ==
    /\ pc' = "Synthesizing"
    /\ phases' = <<"Synthesizing">>
    /\ builder' = ExpectedBuilder
    /\ sceptre_user_data' = sceptre_user_data
    /\ DOMAIN cdk_context' \subseteq DOMAIN ContextOnEntry \cup {QualifierKey}
    /\ \A k \in DOMAIN ContextOnEntry : cdk_context'[k] = ContextOnEntry[k]

C15_MissingFieldIsInvalid ==
    (/\ ValidateRan
     /\ PrerequisitesPresent
     /\ ("deployment_type" \notin DOMAIN arguments \/ "path" \notin DOMAIN arguments)) =>
        RejectedAsInvalid

\* The file the path argument references is not on disk
TemplateFileMissing ==
    "path" \in DOMAIN arguments /\
        <<"root_sceptre_dir/templates/my/template",
          arguments["path"].stem \o arguments["path"].suffix>> \notin DOMAIN fs.files

\* C16: validate raises TemplateHandlerArgumentsInvalidError when the file
\* the path argument references does not exist (stated for a machine on which
\* no prerequisite is missing, and for arguments that hold both required
\* fields).
C16_MissingFileIsInvalid ==
    (/\ ValidateRan
     /\ PrerequisitesPresent
     /\ "deployment_type" \in DOMAIN arguments
     /\ TemplateFileMissing) => RejectedAsInvalid

(* ------------------------------------------ claims on the prerequisite gate *)

\* The checks of the gate, in the order claimed
FullGate ==
    << [func |-> "which", arg |-> "node"],
       [func |-> "which", arg |-> "npx"],
       [func |-> "subprocess_run", arg |-> "npm list cdk-assets"],
       [func |-> "subprocess_run", arg |-> "npm --global list cdk-assets"] >>

\* The error naming the first prerequisite that is missing
MissingPrerequisiteMessage ==
    IF "node" \notin machine.which THEN "Command prerequisite 'node' not found"
    ELSE IF "npx" \notin machine.which THEN "Command prerequisite 'npx' not found"
    ELSE "Node Package prerequisite 'cdk-assets' not found"

\* C17: once validate has run: if node, npx or the node package cdk-assets
\* is missing, validate raised a SceptreException naming the first one
\* missing, whatever the arguments are; the prerequisites were checked in the
\* order node, npx, cdk-assets, and no further one after the first missing;
\* no import, stack instantiation, synthesis or build subprocess has happened.
C17_PrerequisiteGate ==
    ValidateRan =>
        /\ ~PrerequisitesPresent =>
              /\ validated.kind = "raised"
              /\ validated.exc = "SceptreException"
              /\ validated.msg = MissingPrerequisiteMessage
        /\ PrerequisitesPresent =>
              ~(validated.kind = "raised" /\ validated.exc = "SceptreException")
        /\ \A i \in 1..Len(checker_calls) : checker_calls[i] = FullGate[i]
        /\ Len(checker_calls) =
              IF "node" \notin machine.which THEN 1
              ELSE IF "npx" \notin machine.which THEN 2
              ELSE IF machine.npm_workspace = 0 THEN 3
              ELSE 4
        /\ import_calls = <<>>
        /\ stack_calls = <<>>
        /\ synth_calls = 0
        /\ subprocess_calls = <<>>

C17_Witness ==
    /\ ValidateRan
    /\ machine.which = {"node"}
    /\ PathIsCdkJson
    /\ "stack_logical_id" \notin DOMAIN arguments
    /\ validated.exc = "SceptreException"
    /\ validated.msg = "Command prerequisite 'npx' not found"
    /\ checker_calls = <<[func |-> "which", arg |-> "node"], [func |-> "which", arg |-> "npx"]>>

\* node_package_exists has been called on a checker, and has ended
NodePackageChecked == caller = "checker" /\ result.kind # "none"

\* C18: node_package_exists(p) never raises; it runs 'npm list p' first; if
\* that exits 0 it returns true and runs nothing else; otherwise it runs
\* 'npm --global list p' and returns whether that exits 0.
C18_NodePackageExists ==
    NodePackageChecked =>
        /\ result.kind = "returned"
        /\ \E p \in {"cdk-assets", "aws-cdk"} :
              IF machine.npm_workspace = 0
              THEN /\ checker_calls = <<[func |-> "subprocess_run", arg |-> "npm list " \o p]>>
                   /\ result.value = TRUE
              ELSE /\ checker_calls =
                          <<[func |-> "subprocess_run", arg |-> "npm list " \o p],
                            [func |-> "subprocess_run", arg |-> "npm --global list " \o p]>>
                   /\ result.value = (machine.npm_global = 0)

C18_Witness ==
    /\ NodePackageChecked
    /\ machine.npm_workspace = 1
    /\ machine.npm_global = 0
    /\ result.value = TRUE
    /\ checker_calls[2].arg = "npm --global list aws-cdk"

\* The subprocesses run so far: by the CommandChecker, and by a builder
SubprocessesRun ==
    {i \in 1..Len(checker_calls) : checker_calls[i].func = "subprocess_run"}

\* C19 as claimed: when validate raises TemplateHandlerArgumentsInvalidError
\* (for an invalid combination, a cdk.json path without stack_logical_id or
\* with nested context values, or a path that fits neither), no subprocess
\* has been invoked and no import_class call has been made.
C19_NoSubprocessAtAll ==
    (ValidateRan /\ RejectedAsInvalid) =>
        /\ SubprocessesRun = {}
        /\ subprocess_calls = <<>>
        /\ import_calls = <<>>

\* C19 amended: when validate raises TemplateHandlerArgumentsInvalidError, no
\* import_class call, no stack instantiation, no synthesis and no synth or
\* publish subprocess has been made; the only subprocesses invoked are those
\* of the prerequisite check: 'npm list cdk-assets', and after it
\* 'npm --global list cdk-assets' if the former exited non-zero.
C19_NoSynthesisBeforeRejection ==
    (ValidateRan /\ RejectedAsInvalid) =>
        /\ import_calls = <<>>
        /\ subprocess_calls = <<>>
        /\ stack_calls = <<>>
        /\ synth_calls = 0
        /\ \A i \in SubprocessesRun :
              checker_calls[i].arg \in {"npm list cdk-assets", "npm --global list cdk-assets"}
        /\ Len(checker_calls) - 2 = (IF machine.npm_workspace = 0 THEN 1 ELSE 2)

C19_Witness ==
    /\ ValidateRan
    /\ RejectedAsInvalid
    /\ "deployment_type" \in DOMAIN arguments
    /\ arguments["deployment_type"] = "bootstrapless"
    /\ "bootstrap_qualifier" \in DOMAIN arguments
    /\ arguments["bootstrap_qualifier"] = "blardyblahr"
    /\ PathIsPython
    /\ validated.msg =
           "You cannot specify a bootstrap_qualifier with the bootstrapless deployment_type"
    /\ Len(checker_calls) = 4
    /\ import_calls = <<>>

(* ------------------------------------------------- claims on ClassImporter *)

\* import_class has been called; its last call
ImportRan == caller = "importer" /\ import_calls # <<>>
LastImport == import_calls[Len(import_calls)]

\* The source file the last call names, when there is one to execute
LastSourceFile == ImportedFile(LastImport.template_path, working_directory)
LastImportLoads ==
    LastSourceFile \in DOMAIN fs.files /\ fs.files[LastSourceFile].raises = ""

\* The paths of the model as the caller wrote them
ExpectedPathString(template_path) ==
    IF ~template_path.abs THEN "parent_dir/class_dir/file_to_import.py"
    ELSE IF template_path.dirs[3] = "class_dir"
    THEN "/work/parent_dir/class_dir/file_to_import.py"
    ELSE "/work/parent_dir/class-dir/file_to_import.py"

\* The error that names the class and the file
IsClassNotFoundError(outcome) ==
    /\ outcome.kind = "raised"
    /\ outcome.exc = "SceptreException"
    /\ outcome.msg =
           "No class named  " \o LastImport.class_name \o " on template at "
               \o ExpectedPathString(LastImport.template_path)

\* C20: import_class(file, class_name) returns the attribute class_name of
\* the module it executed; when the module has no such attribute it raises a
\* SceptreException whose message names the class and the file path; a file
\* that cannot be loaded ends in another error than that one.
C20_ImportClassLookup ==
    ImportRan =>
        IF LastImportLoads
        THEN IF LastImport.class_name \in DOMAIN fs.files[LastSourceFile].attributes
             THEN /\ result.kind = "returned"
                  /\ result.value.class =
                         fs.files[LastSourceFile].attributes[LastImport.class_name]
                  /\ result.value.module = template_module_name
             ELSE IsClassNotFoundError(result)
        ELSE result.kind = "raised" /\ ~IsClassNotFoundError(result)

C20_Witness ==
    /\ ImportRan
    /\ LastImport.class_name = "CantFindMe"
    /\ ~LastImport.template_path.abs
    /\ working_directory = <<"work">>
    /\ result.kind = "raised"
    /\ result.exc = "SceptreException"
    /\ result.msg = "No class named  CantFindMe on template at parent_dir/class_dir/file_to_import.py"

(* ------------------------------------------- claims on the import failures *)

\* The last call names a file that is missing, or one whose execution raises
LastImportFailsToLoad == ImportRan /\ ~LastImportLoads

\* C21: when the stack-definition file does not exist, or executing it raises
\* any exception, import_class fails with a SceptreException that is not the
\* class-not-found error; the raw FileNotFoundError or the exception of the
\* user's module does not escape as it is.
C21_LoadErrorIsSceptreException ==
    LastImportFailsToLoad =>
        /\ result.kind = "raised"
        /\ result.exc = "SceptreException"
        /\ ~IsClassNotFoundError(result)

(* ------------------------------------------- claims on the module identity *)

\* The directory chain of the file the last call names, and the part of it
\* below the working directory
LastDirs == ResolvedDirs(LastImport.template_path, working_directory)
LastUnderCwd == ImportRan /\ IsAncestor(working_directory, LastDirs)
DirsBelowCwd == SubSeq(LastDirs, Len(working_directory) + 1, Len(LastDirs))

\* The directory named by the first i names of the chain is a package: it
\* holds a package marker and its name is an identifier
IsPackageDir(i) ==
    /\ FilePath(DirString(SubSeq(LastDirs, 1, i)), "__init__.py") \in DOMAIN fs.files
    /\ LastDirs[i] \notin {"", "class-dir"}

\* Every directory from below the working directory down to the file is one
AllPackagesBelowCwd ==
    \A i \in (Len(working_directory) + 1)..Len(LastDirs) : IsPackageDir(i)

\* C22: for a file under the working directory in directories that all carry
\* package markers, the module identity is the chain of directory names from
\* below the working directory down to the file, followed by the file's base
\* name; the working directory's own name is never part of it, even when the
\* working directory itself holds a package marker and has an identifier name.
C22_IdentityExcludesWorkingDirectory ==
    (LastUnderCwd /\ LastSourceFile \in DOMAIN fs.files /\ AllPackagesBelowCwd) =>
        template_module_name = Dotted(DirsBelowCwd \o <<LastImport.template_path.stem>>)

(* ------------------------------- claims on configuration-invalid errors *)

\* A handle or build_template call is over and raised the configuration-
\* invalid error
ExecutionRaisedInvalid ==
    /\ pc = "Done"
    /\ result.kind = "raised"
    /\ result.exc = "TemplateHandlerArgumentsInvalidError"

\* C23 as claimed: configuration-invalid errors are raised only during
\* validation; no handle or build_template call ever raises one.
C23_NeverDuringExecution == ~ExecutionRaisedInvalid

\* C23 amended: the only handle or build_template call that raises a
\* configuration-invalid error is the one of a BootstraplessCdkBuilder whose
\* synthesizer rejected an option of the bootstrapless configuration with
\* TypeError; it is raised in the synthesis step, chained to the TypeError,
\* before the stack class is instantiated, the app synthesized or a
\* subprocess run.
C23_InvalidOnlyFromSynthesizer ==
    ExecutionRaisedInvalid =>
        /\ builder.class = "BootstraplessCdkBuilder"
        /\ UnknownSynthesizerOptions # {}
        /\ result.cause = "TypeError"
        /\ phases = <<"Synthesizing", "Done">>
        /\ stack_calls = <<>>
        /\ synth_calls = 0
        /\ subprocess_calls = <<>>

C23_Witness ==
    /\ ExecutionRaisedInvalid
    /\ caller = "direct"
    /\ builder.bootstrapless_config = ("some_unknown_configuration" :> "my_bucket")
    /\ phases = <<"Synthesizing", "Done">>

(* ------------------------------------ claims on the temporary directory *)

\* The temporary directory of the call exists / is gone with all its files
OutputDirExists == output_dir \in fs.dirs
OutputDirGone ==
    /\ output_dir \notin fs.dirs
    /\ \A fp \in DOMAIN fs.files : fp[1] # output_dir

\* The assets file of the call, as build_template names it
OutputAssetsFile == <<output_dir, builder.stack_logical_id \o ".assets.json">>

\* Between synth and the end of the call the directory exists, and the assets
\* file exists when the publisher is about to run; once the call is over, and
\* between calls, nothing of it is left
TemporaryDirectoryScope ==
    IsCdkJsonBuilder =>
        /\ pc \in {"ManifestInspection", "Publishing", "SkipPublish", "TemplateExtraction"} =>
              OutputDirExists
        /\ pc = "Publishing" => OutputAssetsFile \in DOMAIN fs.files
        /\ pc = "Done" => output_dir # "" /\ OutputDirGone
        /\ pc \in {"Idle", "Done"} => fs.dirs = {} /\ DOMAIN fs.files = {}

\* The synth step makes a directory that did not exist before the call; the
\* publisher is handed the assets file of that directory, which exists when
\* it runs
TemporaryDirectoryStep ==
    IsCdkJsonBuilder =>
        /\ pc = "Synthesizing" =>
              /\ output_dir' \notin fs.dirs
              /\ output_dir' # ""
              /\ pc' # "Done" => output_dir' \in fs'.dirs
        /\ (pc = "Publishing" /\ pc' # "Publishing") =>
              /\ OutputAssetsFile \in DOMAIN fs.files
              /\ subprocess_calls'[Len(subprocess_calls')].command =
                     "npx cdk-assets -v publish --path " \o output_dir \o "/"
                         \o builder.stack_logical_id \o ".assets.json"

\* C24: CdkJsonBuilder.build_template uses a temporary output directory made
\* fresh for each call: it exists throughout synth, manifest reading,
\* publishing and template reading (the assets file handed to the publisher
\* exists while the publisher runs), and the directory with everything in it
\* no longer exists once build_template has returned, or has raised at any
\* of those steps.
C24_TemporaryDirectory ==
    /\ []TemporaryDirectoryScope
    /\ [][TemporaryDirectoryStep]_vars

C24_Witness ==
    /\ IsCdkJsonBuilder
    /\ pc = "Done"
    /\ phases = <<"Synthesizing", "ManifestInspection", "Publishing", "Done">>
    /\ result.kind = "raised"
    /\ output_dir = "/tmp/tmpa"
    /\ OutputDirGone

(* ------------------------------------------------ claims on phase ordering *)

\* build_template has been called (a handle call that ends at the import
\* never calls it)
InBuild == phases # <<>> /\ phases[1] = "Synthesizing"

\* The phases of a call that succeeds, publishing or not, and the phase
\* traces a call can show: a call goes through them in order and ends
\* ("Done") after the last one, or when a step raises
PhaseOrder(publish) ==
    <<"Synthesizing", "ManifestInspection", publish, "TemplateExtraction", "Done">>
PhaseTraces ==
    {SubSeq(PhaseOrder(p), 1, n) : p \in {"Publishing", "SkipPublish"}, n \in 1..5}
        \cup {Append(SubSeq(PhaseOrder("Publishing"), 1, n), "Done") : n \in 1..3}

\* The publish command of the call, and the subprocess calls that ran it
PublishCommandOfCall ==
    IF IsCdkJsonBuilder THEN ExpectedPublishCommand
    ELSE "npx cdk-assets -v publish --path " \o manifest_artifact.file
PublishCalls ==
    {i \in 1..Len(subprocess_calls) : subprocess_calls[i].command = PublishCommandOfCall}
SynthCalls == (1..Len(subprocess_calls)) \ PublishCalls

\* Manifest inspection decided to publish
DecidedToPublish ==
    IF IsCdkJsonBuilder THEN AssetsManifestRead /\ ~JsonManifestIsOnlyTemplate
    ELSE ManifestIndexes # {} /\ ~ManifestIsOnlyTemplate

PhaseOrdering ==
    /\ pc = "Idle" => phases = <<>>
    /\ pc # "Idle" => phases # <<>> /\ phases[Len(phases)] = pc
    /\ (phases # <<>> /\ ~InBuild) => phases = <<"Done">> /\ builder = NoBuilder
    /\ InBuild =>
          /\ phases \in PhaseTraces
          \* synthesis: once, and before manifest inspection
          /\ IsPythonBuilder =>
                /\ SynthCalls = {}
                /\ Len(stack_calls) <= 1
                /\ synth_calls <= 1
                /\ (Len(phases) >= 2 /\ phases[2] = "ManifestInspection") => synth_calls = 1
          /\ IsCdkJsonBuilder =>
                /\ SynthCalls = (IF pc = "Synthesizing" THEN {} ELSE {1})
                /\ (Len(phases) >= 2 /\ phases[2] = "ManifestInspection") =>
                      subprocess_calls[1].ok
          \* publishing: at most once, after the decision to publish
          /\ Cardinality(PublishCalls) <= 1
          /\ PublishCalls # {} =>
                /\ Len(phases) >= 4
                /\ phases[3] = "Publishing"
                /\ DecidedToPublish
                /\ PublishCalls = {Len(subprocess_calls)}
          /\ (Len(phases) >= 3 /\ phases[3] = "SkipPublish") =>
                PublishCalls = {} /\ ~DecidedToPublish
          /\ (Len(phases) >= 3 /\ phases[3] = "Publishing") =>
                DecidedToPublish /\ (PublishCalls = {} <=> pc = "Publishing")
          \* template extraction: last, after publishing succeeded or was skipped
          /\ (Len(phases) >= 4 /\ phases[4] = "TemplateExtraction" /\ phases[3] = "Publishing") =>
                \A i \in PublishCalls : subprocess_calls[i].ok
          /\ result.kind = "returned" =>
                Len(phases) = 5 /\ phases[4] = "TemplateExtraction"

\* A call leaves nothing behind: the builder is as it was constructed, and
\* the next call starts with no phase, no assembly, no manifest and no
\* environment of the one before
NoPhaseStateKept ==
    /\ caller = "direct" => builder' = builder
    /\ (pc = "Done" /\ pc' = "Idle") =>
          /\ phases' = <<>>
          /\ assembly' = NoAssembly
          /\ manifest_artifact' = NoArtifact
          /\ assets_manifest' = EmptyDict
          /\ environment_variables' = EmptyDict
          /\ output_dir' = ""
          /\ subprocess_calls' = <<>>
    /\ (pc = "Idle" /\ pc' # "Idle") => phases' \in {<<"Synthesizing">>, <<"Done">>}

\* C25: every build_template call, of all three builders, goes through its
\* phases in order: synthesis runs once and before manifest inspection; the
\* publish command runs at most once and only after manifest inspection
\* decided to publish; template extraction is the last step and starts only
\* after publishing succeeded or was skipped; no phase is repeated or skipped
\* over, and the builder keeps no phase state from one call to the next.
C25_PhaseOrdering ==
    /\ []PhaseOrdering
    /\ [][NoPhaseStateKept]_vars

C25_Witness ==
    /\ builder.class = "BootstrappedCdkBuilder"
    /\ phases = PhaseOrder("Publishing")
    /\ result.kind = "returned"
    /\ Len(subprocess_calls) = 1
    /\ subprocess_calls[1].ok

(* ------------------------------------- builds sharing a connection manager *)

\* A fourth specification drives builders a caller constructs around one
\* connection manager: the caller may construct another builder between two
\* build_template calls, and the connection manager is of either kind.
SharedConnectionManagers ==
    [region : Regions, environment : BaseEnvs, shares_mapping : BOOLEAN]

InitBuild ==
    /\ connection_manager \in SharedConnectionManagers
    /\ caller = "direct"
    /\ arguments = EmptyDict
    /\ initial_arguments = arguments
    /\ sceptre_user_data = EmptyDict
    /\ builder \in DirectBuilders
    /\ validated = NoOutcome
    /\ machine = NoMachine
    /\ checker_calls = <<>>
    /\ NoImporter
    /\ pc = "Idle"
    /\ fs = EmptyFs
    /\ NoCall

\* The caller constructs another builder with the same connection manager
ConstructBuilder ==
    /\ caller = "direct"
    /\ pc = "Idle"
    /\ \E constructed \in DirectBuilders \ {builder} : builder' = constructed
    /\ UNCHANGED <<arguments, sceptre_user_data, validated, machine, checker_calls,
                   importer_vars, import_calls>>
    /\ UNCHANGED handler_vars
    /\ UNCHANGED call_vars

NextBuild ==
    \/ ConstructBuilder
    \/ BuildTemplate
    \/ BootstrappedSynthesize
    \/ BootstraplessSynthesize
    \/ CdkJsonSynthesize
    \/ PythonGetAssetsManifest
    \/ CdkJsonGetAssetsManifest
    \/ PythonPublish
    \/ CdkJsonPublish
    \/ SkipPublish
    \/ PythonGetTemplate
    \/ CdkJsonGetTemplate
    \/ Return

BuildSpec == InitBuild /\ [][NextBuild]_vars

(* -------------------------------- claims on the environment variable set *)

\* The step of a build that computes its environment: publishing for a
\* Python builder, the start of build_template for the CdkJsonBuilder
ComputesEnvironment ==
    \/ pc = "Publishing" /\ IsPythonBuilder
    \/ pc = "Synthesizing" /\ IsCdkJsonBuilder

\* The environment the step computes is the base environment the connection
\* manager supplies at that call, with what the build adds
AddedByBuild == {"CDK_DEFAULT_REGION"} \cup ExpectedBssNames
DerivedFromBaseAtCall ==
    LET base == connection_manager.environment
        env == environment_variables'
    IN /\ DOMAIN env = DOMAIN base \cup AddedByBuild
       /\ env["CDK_DEFAULT_REGION"] = connection_manager.region
       /\ IsCdkJsonBuilder =>
             \A k \in DOMAIN builder.bootstrapless_config :
                 env[ExpectedBssName[k]] = builder.bootstrapless_config[k]
       /\ \A name \in DOMAIN base \ AddedByBuild : env[name] = base[name]

RunStart(top) ==
    CHOOSE j \in top..(Len(LastDirs) + 1) :
        /\ \A i \in j..Len(LastDirs) : IsPackageDir(i)
        /\ j > top => ~IsPackageDir(j - 1)

\* The base name prefixed by the names of that run
IdentityOfRun(top) ==
    Dotted(SubSeq(LastDirs, RunStart(top), Len(LastDirs)) \o <<LastImport.template_path.stem>>)

\* The identity of the last call: the base name alone outside the working
\* directory, the base name prefixed by the run inside it
IdentityIsRun(top) ==
    ImportRan =>
        template_module_name =
            IF LastUnderCwd THEN IdentityOfRun(top) ELSE LastImport.template_path.stem
IdentityIsRunOfAncestors == IdentityIsRun(1)
IdentityIsRunUpToCwd == IdentityIsRun(Len(working_directory))

\* A call for a file outside the working directory leaves sys.path alone
OutsideLeavesSysPath ==
    (import_calls' # import_calls /\ ~LastUnderCwd') => sys_path' = sys_path

ImportStep == import_calls' # import_calls

\* The ancestor directories of the file the last call names, from the file's
\* parent up to and including the working directory, as sys.path holds them
AncestorsUpToCwd ==
    [k \in 1..(Len(LastDirs) - Len(working_directory) + 1) |->
        DirString(SubSeq(LastDirs, 1, Len(LastDirs) + 1 - k))]

SearchPathGrowth ==
    /\ ImportStep =>
          \* nothing is removed or reordered, and the ancestors are appended
          /\ Len(sys_path') >= Len(sys_path)
          /\ SubSeq(sys_path', 1, Len(sys_path)) = sys_path
          /\ SubSeq(sys_path', Len(sys_path) + 1, Len(sys_path')) =
                 IF LastUnderCwd' THEN AncestorsUpToCwd' ELSE <<>>
          \* the same file and class again: the same identity, the same class
          /\ (import_calls # <<>> /\ LastImport' = LastImport) =>
                /\ template_module_name' = template_module_name
                /\ result' = result
    /\ ~ImportStep => sys_path' = sys_path

\* C28: the module search path is append-only across import_class calls,
\* successful or failing: entries are never removed or reordered; a call for
\* a file under the working directory appends every ancestor directory from
\* the file's parent up to and including the working directory, also those
\* above a broken package chain, so repeated imports add duplicate entries;
\* importing the same file again with the same class name computes the same
\* module identity and resolves an equivalent class.
C28_SearchPathAppendOnly == [][SearchPathGrowth]_vars

\* Two failing imports of the same missing file, below a broken chain
C28_Witness ==
    /\ ImportRan
    /\ Len(import_calls) = 2
    /\ import_calls[1] = import_calls[2]
    /\ working_directory = <<"work">>
    /\ result.kind = "raised"
    /\ result.exc = "FileNotFoundError"
    /\ template_module_name = "file_to_import"
    /\ sys_path = <<"/usr/lib/python3",
                    "/work/parent_dir/class-dir", "/work/parent_dir", "/work",
                    "/work/parent_dir/class-dir", "/work/parent_dir", "/work">>

(* ------------------------------------------- claims on the synth command *)

\* One '--context key=value' flag for the entry of the context with that key
ExpectedContextFlag(key) ==
    IF key \in DOMAIN cdk_context
    THEN "--context " \o key \o "=" \o cdk_context[key].val \o " "
    ELSE ""

\* The synth command line of the call
ExpectedSynthCommand ==
    "npx cdk synth " \o builder.stack_logical_id \o " -o " \o output_dir \o " -q "
        \o ExpectedContextFlag("something")
        \o ExpectedContextFlag("@aws-cdk/core:bootstrapQualifier")

\* The resolved directory that holds cdk.json: of the builders a caller
\* constructs, and of the builder handle constructs
ExpectedSynthCwd ==
    IF caller = "direct" THEN "/path/to/my"
    ELSE "/cwd/root_sceptre_dir/templates/my/template"

SynthCommandRan ==
    (IsCdkJsonBuilder /\ pc \notin {"Idle", "Synthesizing"}) =>
        /\ Len(subprocess_calls) >= 1
        /\ subprocess_calls[1].command = ExpectedSynthCommand
        /\ subprocess_calls[1].cwd = ExpectedSynthCwd
        /\ subprocess_calls[1].env = environment_variables
        /\ subprocess_calls[1].env["CDK_DEFAULT_REGION"] = connection_manager.region
        /\ \A i \in 2..Len(subprocess_calls) :
              /\ subprocess_calls[i].command # ExpectedSynthCommand
              /\ subprocess_calls[i].command = ExpectedPublishCommand
              /\ subprocess_calls[i].env = subprocess_calls[1].env

\* The synth command is the first thing to run, on an output directory that
\* nothing has touched
SynthCommandRunsFirst ==
    (IsCdkJsonBuilder /\ pc = "Synthesizing") =>
        /\ subprocess_calls = <<>>
        /\ Len(subprocess_calls') = 1
        /\ output_dir' \notin fs.dirs
        /\ \A fp \in DOMAIN fs.files : fp[1] # output_dir'

\* C29: CdkJsonBuilder runs the synth command exactly once per build, before
\* anything else touches the output directory: 'npx cdk synth
\* <stack_logical_id> -o <output_dir> -q' followed by one '--context
\* key=value' flag per context entry (none for an empty context), run in the
\* resolved directory that holds cdk.json, with the derived environment; a
\* later publish command of the same build receives the same environment.
C29_SynthCommand ==
    /\ []SynthCommandRan
    /\ [][SynthCommandRunsFirst]_vars

C29_Witness ==
    /\ IsCdkJsonBuilder
    /\ caller = "orchestrator"
    /\ pc = "Done"
    /\ Len(subprocess_calls) = 2
    /\ subprocess_calls[1].command =
           "npx cdk synth MyCdkStack -o /tmp/tmpa -q --context something=else "
               \o "--context @aws-cdk/core:bootstrapQualifier=blardyblahr "
    /\ subprocess_calls[1].cwd = "/cwd/root_sceptre_dir/templates/my/template"
    /\ subprocess_calls[2].env = subprocess_calls[1].env

(* --------------------------------------------- claims on repeated handling *)

\* The context and the qualifier the handler was constructed with
SuppliedContext ==
    IF "context" \in DOMAIN initial_arguments THEN initial_arguments["context"] ELSE EmptyDict
SuppliedQualifier ==
    IF "bootstrap_qualifier" \in DOMAIN initial_arguments
    THEN initial_arguments["bootstrap_qualifier"] ELSE ""

\* The context the first handle call passes to build_template
FirstContext ==
    IF QualifierKey \in DOMAIN SuppliedContext \/ SuppliedQualifier = "" THEN SuppliedContext
    ELSE (QualifierKey :> [type |-> "str", val |-> SuppliedQualifier]) @@ SuppliedContext

\* The arguments are the supplied ones, but for the qualifier key that
\* handle may have added to the supplied context
ArgumentsButForQualifier ==
    caller = "orchestrator" =>
        /\ DOMAIN arguments = DOMAIN initial_arguments
        /\ \A k \in DOMAIN arguments \ {"context"} : arguments[k] = initial_arguments[k]
        /\ "context" \in DOMAIN arguments =>
              /\ DOMAIN arguments["context"] \ {QualifierKey} =
                     DOMAIN initial_arguments["context"] \ {QualifierKey}
              /\ \A k \in DOMAIN initial_arguments["context"] :
                    arguments["context"][k] = initial_arguments["context"][k]
              /\ arguments["context"] \in {initial_arguments["context"], FirstContext}

\* Every handle call passes the context of the first one, and leaves
\* sceptre_user_data alone
SameContextEveryCall ==
    caller = "orchestrator" =>
        /\ HandleCallsBuildTemplate => cdk_context' = FirstContext
        /\ sceptre_user_data' = sceptre_user_data

\* C30: after any number of handle() calls on the same handler, the context
\* passed to build_template is equal to the one passed on the first call,
\* and the arguments differ from their original value at most by the
\* qualifier key having been added to the supplied context mapping;
\* sceptre_user_data and every other argument are never modified.
C30_RepeatedHandling ==
    /\ []ArgumentsButForQualifier
    /\ [][SameContextEveryCall]_vars

\* A handle call on arguments an earlier call has added the qualifier to
C30_Witness ==
    /\ caller = "orchestrator"
    /\ pc = "Synthesizing"
    /\ {"context", "bootstrap_qualifier"} \subseteq DOMAIN initial_arguments
    /\ initial_arguments["context"] = ("something" :> [type |-> "str", val |-> "else"])
    /\ initial_arguments["bootstrap_qualifier"] = "blardyblahr"
    /\ arguments["context"] # initial_arguments["context"]
    /\ cdk_context = arguments["context"]
    /\ cdk_context["@aws-cdk/core:bootstrapQualifier"].val = "blardyblahr"

====
